---- MODULE Spec2Model ----
(***************************************************************************)
(* Model of brother_label_printer_control_ql:                              *)
(*   - control/response.py, control/errors.py, control/constants.py:       *)
(*     the status frame interpreter PrinterResponse.from_bytes             *)
(*   - backends/abstract.py: BaseBrotherQLBackend.send, the blocking       *)
(*     write-then-poll loop, and dispose / __del__                         *)
(*   - backends/{pyusb,network,linux_kernel}.py: construction and          *)
(*     _dispose of the three transports                                    *)
(*                                                                         *)
(* Bytes are naturals 0..255, byte strings are sequences of bytes.  A      *)
(* Python offset k is the sequence index k+1.                              *)
(***************************************************************************)
EXTENDS Integers, Sequences, FiniteSets, TLC

VARIABLES
    pc,         \* position of send(): idle, write, polling, returned, raised
    blocking,   \* the blocking argument of send()
    status,     \* the SendStatus object of the running send()
    data,       \* the local variable data: the last result of self.read()
    elapsed,    \* time.time() - start, in seconds, saturated at Deadline
    exc,        \* the exception that left send(), "" when none
    writes,     \* number of calls of self.write() made by send()
    trace,      \* history: one tag per call of self.read() made by send()
    input,      \* from_bytes: the byte string handed to the interpreter
    result,     \* from_bytes: what the interpreter answered for input
    backend,    \* which backend class the transport object is
    life,       \* transport object: new, constructed, failed, deleted
    attrs,      \* transport object: the instance attributes that exist
    dev_none,   \* transport object: self.dev exists and is None
    handle,     \* the OS resource the object acquired: none, open, closed, reused
    was,        \* pyusb: the value of self.was_kernel_driver_active
    driver,     \* pyusb: the kernel driver of the interface: none, attached, detached
    releases,   \* number of times the object's own handle was released
    foreign,    \* number of times a handle of some other owner was closed
    calls,      \* number of invocations of dispose()
    raises_,    \* number of invocations of dispose() that raised
    rd,         \* one call of _read(): strategy, locals, raw reads made, outcome
    query,      \* catalogs: the look-up or conversion asked for, with its arguments
    answer,     \* catalogs: what the call returned or raised
    codec,      \* row compression: the row, its compressed and decompressed forms
    qlr,        \* encoder: the BrotherQLRaster object
    last,       \* encoder: history, the last call made on qlr
    chunks,     \* reader: the instructions chunker yields
    stream,     \* reader: the bytes handed to chunker, and what the merge returns
    br          \* reader: the BrotherQLReader object

sendVars == <<pc, blocking, status, data, elapsed, exc, writes, trace>>
parseVars == <<input, result>>
backendVars ==
    <<backend, life, attrs, dev_none, handle, was, driver, releases, foreign, calls, raises_,
      rd>>
catalogVars == <<query, answer>>
codecVars == <<codec>>
rasterVars == <<qlr, last, chunks, stream, br>>
vars == <<sendVars, parseVars, backendVars, catalogVars, codecVars, rasterVars>>

(***************************************************************************)
(* Bounds of the model                                                     *)
(***************************************************************************)
MaxReads == 3       \* reads of one send() that the history records
MaxDt == 5          \* longest time one read or write takes, in seconds
MaxDispose == 3     \* explicit dispose() calls on one transport object
MaxPoll == 3        \* longest time one turn of the polling loop takes, in milliseconds
MaxFrameLen == 34   \* longest byte string handed to from_bytes
MaxThreshold == 120 \* largest threshold percentage handed to the conversion
MaxRowLen == 4      \* longest row of which every content is compressed
MaxOps == 1         \* add_* calls made one by one on an encoder object
MaxImages == 2      \* images of one job
MaxRows == 2        \* rows of one image of a job
MaxCalls == 2       \* calls made one after the other on one encoder object
MaxStreamLen == 4   \* longest byte string of which every content is split

Min(a, b) == IF a < b THEN a ELSE b

Bytes == 0 .. 255

(***************************************************************************)
(* control/constants.py: the IntEnums, as value -> name                    *)
(***************************************************************************)
RespMediaTypes ==
    (0 :> "NO_MEDIA") @@ (10 :> "CONTINUOUS_LENGTH_TAPE") @@ (11 :> "DIE_CUT_LABELS")

RespStatusTypes ==
    (0 :> "REPLY_TO_STATUS_REQUEST") @@ (1 :> "PRINTING_COMPLETED")
    @@ (2 :> "ERROR_OCCURRED") @@ (5 :> "NOTIFICATION") @@ (6 :> "PHASE_CHANGE")

RespPhaseTypes ==
    (0 :> "WAITING_TO_RECEIVE") @@ (1 :> "PRINTING_STATE")

\* variant: a value outside the enum is dropped instead of kept as a raw int
EnumOrRaw_known_only(enum, value) ==
    IF value \in DOMAIN enum
    THEN [member |-> TRUE, name |-> enum[value], value |-> value]
    ELSE [member |-> FALSE, name |-> "", value |-> 0]

\* EnumClass(value) inside try/except ValueError: the member when the value is
\* one of the enum, the raw int otherwise.  member = FALSE marks the raw int.
\* An IntEnum member compares equal to its int value, so comparisons in the
\* code are comparisons of the value field.
EnumOrRaw(enum, value) ==
    IF value \in DOMAIN enum
    THEN [member |-> TRUE, name |-> enum[value], value |-> value]
    ELSE [member |-> FALSE, name |-> "", value |-> value]

(***************************************************************************)
(* control/errors.py                                                       *)
(***************************************************************************)
\* member names in definition order; the member at index i has value i - 1
RespErrorInformation1 ==
    << "NO_MEDIA_WHEN_PRINTING", "END_OF_MEDIA", "TAPE_CUTTER_JAM", "NOT_USED",
       "MAIN_UNIT_IN_USE", "PRINTER_TURNED_OFF", "HIGH_VOLTAGE_ADAPTER",
       "FAN_DOESNT_WORK" >>

RespErrorInformation2 ==
    << "REPLACE_MEDIA_ERROR", "EXPANSION_BUFFER_FULL",
       "TRANSMISSION_COMMUNICATION_ERROR", "COMMUNICATION_BUFFER_FULL",
       "COVER_OPENED_WHILE_PRINTING", "CANCEL_KEY", "MEDIA_CANNOT_BE_FED",
       "SYSTEM_ERROR" >>

None == [member |-> FALSE, name |-> "None", value |-> -1]

\* mutation: the member's value used as the mask instead of the bit number
is_present_mask(value, error_info) ==
    \E b \in 0 .. 7 : (value \div 2^b) % 2 = 1 /\ (error_info \div 2^b) % 2 = 1

\* bool(error_info & (1 << self.value))
is_present(value, error_info) ==
    (error_info \div 2^value) % 2 = 1

\* for error in Enum: if error.is_present(error_info): return error
\* return None
check_for_error(enum, error_info) ==
    LET present == {i \in 1 .. Len(enum) : is_present(i - 1, error_info)}
    IN  IF present = {}
        THEN None
        ELSE LET i == CHOOSE j \in present : \A k \in present : j <= k
             IN  [member |-> TRUE, name |-> enum[i], value |-> i - 1]

\* the truth value Python gives to what check_for_error returned, as tested by
\* "if error1 := ...": None is false, and an IntEnum member is an int, false
\* when its value is 0
Truth(x) == x # None /\ x.value # 0

(***************************************************************************)
(* control/response.py: PrinterResponse.from_bytes                         *)
(***************************************************************************)
Header == <<128, 32, 66>>               \* b"\x80\x20\x42"

startswith(d, prefix) ==
    /\ Len(d) >= Len(prefix)
    /\ \A i \in 1 .. Len(prefix) : d[i] = prefix[i]

\* the result is [raised |-> exception class name, "" when it returned,
\*                why |-> which of the two raise statements, "" when it returned,
\*                value |-> the PrinterResponse]
NoResponse == [status_type |-> None, phase_type |-> None, media_type |-> None,
               media_width |-> 0, media_length |-> 0, errors |-> << >>]

from_bytes(d) ==
    IF Len(d) < 32
    THEN [raised |-> "NameError", why |-> "Insufficient amount of data received",
          value |-> NoResponse]
    ELSE IF ~startswith(d, Header)
    THEN [raised |-> "NameError", why |-> "doesn't start with the usual header",
          value |-> NoResponse]
    ELSE LET error1 == check_for_error(RespErrorInformation1, d[9])
             error2 == check_for_error(RespErrorInformation2, d[10])
             errors == (IF Truth(error1) THEN <<error1.name>> ELSE << >>)
                       \o (IF Truth(error2) THEN <<error2.name>> ELSE << >>)
         IN  [raised |-> "", why |-> "",
              value |-> [status_type |-> EnumOrRaw(RespStatusTypes, d[19]),
                         phase_type |-> EnumOrRaw(RespPhaseTypes, d[20]),
                         media_type |-> EnumOrRaw(RespMediaTypes, d[12]),
                         media_width |-> d[11],
                         media_length |-> d[18],
                         errors |-> errors]]

(***************************************************************************)
(* control/status.py and control/outcome.py                                *)
(***************************************************************************)
PrintOutcome == {"UNKNOWN", "SENT", "PRINTED", "ERROR"}

\* the dataclass defaults; printer_state = None is NoResponse
SendStatus ==
    [instructions_sent |-> TRUE, outcome |-> "UNKNOWN", printer_state |-> NoResponse,
     did_print |-> FALSE, ready_for_next_job |-> FALSE]

(***************************************************************************)
(* backends/abstract.py: BaseBrotherQLBackend.send                         *)
(***************************************************************************)
Deadline == 10      \* while time.time() - start < 10

\* mutation: the empty read is not skipped
Truthy_always(d) == TRUE

\* "if not data": a bytes object is true when it is not empty
Truthy(d) == Len(d) > 0

\* the exception classes the except clause around from_bytes catches
Catches(e) == e = "ValueError"

\* mutation: the blocking flag is ignored
after_write_always_polls(b) == "polling"

\* "if not blocking: return status"
after_write(b) == IF ~b THEN "returned" ELSE "polling"

\* "if result.errors": a list is true when it is not empty
has_errors(r) == Len(r.errors) > 0

\* status.outcome = PrintOutcome.ERROR
on_errors(st) == [st EXCEPT !.outcome = "ERROR"]

\* variant: the outcome is set, did_print is not
on_printing_completed_outcome_only(st, r) ==
    IF r.status_type.value = 1
    THEN [st EXCEPT !.outcome = "PRINTED"]
    ELSE st

\* if result.status_type == RespStatusTypes.PRINTING_COMPLETED: ...
on_printing_completed(st, r) ==
    IF r.status_type.value = 1
    THEN [st EXCEPT !.did_print = TRUE, !.outcome = "PRINTED"]
    ELSE st

\* mutation: the status type is not looked at
on_phase_change_any_status(st, r) ==
    IF r.phase_type.value = 0
    THEN [st EXCEPT !.ready_for_next_job = TRUE]
    ELSE st

\* if result.status_type == PHASE_CHANGE and result.phase_type == WAITING_TO_RECEIVE: ...
on_phase_change(st, r) ==
    IF r.status_type.value = 6 /\ r.phase_type.value = 0
    THEN [st EXCEPT !.ready_for_next_job = TRUE]
    ELSE st

\* mutation: the loop is never left on completion
job_done_never(st) == FALSE

\* "if status.did_print and status.ready_for_next_job: break"
job_done(st) == st.did_print /\ st.ready_for_next_job

\* mutation: an error frame is recorded but does not leave the loop
handle_result_no_break(st, r) ==
    LET s1 == [st EXCEPT !.printer_state = r]
        s2 == IF has_errors(r) THEN on_errors(s1) ELSE s1
        s3 == on_phase_change(on_printing_completed(s2, r), r)
    IN  [status |-> s3, stop |-> job_done(s3)]

\* the body of the polling loop after a successful parse: the new status and
\* whether a break leaves the loop
handle_result(st, r) ==
    LET s1 == [st EXCEPT !.printer_state = r]
    IN  IF has_errors(r)
        THEN [status |-> on_errors(s1), stop |-> TRUE]
        ELSE LET s3 == on_phase_change(on_printing_completed(s1, r), r)
             IN  [status |-> s3, stop |-> job_done(s3)]

(***************************************************************************)
(* The device: what a read of up to 32 bytes can return during one send()  *)
(***************************************************************************)
MkFrame(e1, e2, mt, st, ph) ==
    [i \in 1 .. 32 |->
        CASE i = 1 -> 128 [] i = 2 -> 32 [] i = 3 -> 66
          [] i = 9 -> e1 [] i = 10 -> e2 [] i = 12 -> mt
          [] i = 19 -> st [] i = 20 -> ph [] OTHER -> 0]

ZeroFrame == MkFrame(0, 0, 0, 0, 0)
ShortRead == SubSeq(ZeroFrame, 1, 31)
BadHeader == [ZeroFrame EXCEPT ![1] = 129]

\* (error information 1, error information 2) and (status type, phase type)
ErrPairs == {<<0, 0>>, <<1, 0>>, <<2, 0>>, <<0, 128>>}
StatusPhase == {<<0, 0>>, <<1, 0>>, <<6, 0>>, <<6, 1>>}

SendFrames == {MkFrame(e[1], e[2], 0, sp[1], sp[2]) : e \in ErrPairs, sp \in StatusPhase}
Responses == {<< >>, ShortRead, BadHeader} \cup SendFrames

\* history: what kind of read this was, told from the bytes alone
Tag(d) ==
    IF Len(d) = 0 THEN "empty"
    ELSE IF Len(d) < 32 THEN "short"
    ELSE IF <<d[1], d[2], d[3]>> # <<128, 32, 66>> THEN "badheader"
    ELSE IF d[9] # 0 \/ d[10] # 0 THEN "error"
    ELSE IF d[19] = 1 THEN "completed"
    ELSE IF d[19] = 6 /\ d[20] = 0 THEN "ready"
    ELSE "other"

SendInit ==
    /\ pc = "idle"
    /\ blocking = TRUE
    /\ status = SendStatus
    /\ data = << >>
    /\ elapsed = 0
    /\ exc = ""
    /\ writes = 0
    /\ trace = << >>

\* send() is entered: status = SendStatus(); start = time.time()
SendBegin ==
    /\ pc = "idle"
    /\ \E b \in BOOLEAN : blocking' = b
    /\ status' = SendStatus
    /\ elapsed' = 0
    /\ pc' = "write"
    /\ UNCHANGED <<data, exc, writes, trace>>

\* self.write(instructions) returns; status.outcome = SENT; if not blocking: return
WriteOk ==
    /\ pc = "write"
    /\ writes' = writes + 1
    /\ status' = [status EXCEPT !.outcome = "SENT"]
    /\ \E dt \in 0 .. MaxDt : elapsed' = Min(elapsed + dt, Deadline)
    /\ pc' = after_write(blocking)
    /\ UNCHANGED <<blocking, data, exc, trace>>

\* variant: send() absorbs the exception of self.write() and goes on to poll
WriteFail_swallowed ==
    /\ pc = "write"
    /\ writes' = writes + 1
    /\ pc' = "polling"
    /\ UNCHANGED <<blocking, status, data, elapsed, exc, trace>>

\* self.write(instructions) raises: nothing in send() catches it
WriteFail ==
    /\ pc = "write"
    /\ writes' = writes + 1
    /\ exc' = "TransportError"
    /\ pc' = "raised"
    /\ UNCHANGED <<blocking, status, data, elapsed, trace>>

\* one iteration of the while loop whose read returns d after dt seconds
Poll ==
    /\ pc = "polling"
    /\ elapsed < Deadline
    /\ Len(trace) < MaxReads
    /\ \E d \in Responses, dt \in 0 .. MaxDt :
        LET r == from_bytes(d)
            h == handle_result(status, r.value)
        IN  /\ data' = d
            /\ trace' = Append(trace, Tag(d))
            /\ elapsed' = Min(elapsed + dt, Deadline)
            /\ IF ~Truthy(d)
               THEN pc' = "polling" /\ UNCHANGED <<status, exc>>
               ELSE IF r.raised # "" /\ Catches(r.raised)
               THEN pc' = "polling" /\ UNCHANGED <<status, exc>>
               ELSE IF r.raised # ""
               THEN pc' = "raised" /\ exc' = r.raised /\ UNCHANGED status
               ELSE /\ status' = h.status
                    /\ pc' = IF h.stop THEN "returned" ELSE "polling"
                    /\ UNCHANGED exc
    /\ UNCHANGED <<blocking, writes>>

\* one iteration of the while loop whose read raises: read() re-raises
ReadFail ==
    /\ pc = "polling"
    /\ elapsed < Deadline
    /\ Len(trace) < MaxReads
    /\ trace' = Append(trace, "ioerror")
    /\ exc' = "TransportError"
    /\ pc' = "raised"
    /\ UNCHANGED <<blocking, status, data, elapsed, writes>>

\* the while condition is false: status.log_status(logger); return status
LoopExit ==
    /\ pc = "polling"
    /\ elapsed >= Deadline
    /\ pc' = "returned"
    /\ UNCHANGED <<blocking, status, data, elapsed, exc, writes, trace>>

(***************************************************************************)
(* The status frame interpreter on its own: from_bytes applied to one      *)
(* byte string                                                             *)
(***************************************************************************)
Pending == [raised |-> "pending", why |-> "", value |-> NoResponse]

\* a frame d cut to, or padded with zero bytes to, n bytes
Resize(d, n) == [i \in 1 .. n |-> IF i <= Len(d) THEN d[i] ELSE 0]

\* every pair of error information bytes, and the unparseable reads
ErrorInputs ==
    {MkFrame(e1, e2, 0, 0, 0) : e1 \in Bytes, e2 \in Bytes} \cup Responses

\* every length around 32 with and without the header, every value of each
\* header byte, and every value of the media, status and phase type bytes
FramingInputs ==
    {Resize(d, n) : d \in {ZeroFrame, BadHeader}, n \in 0 .. MaxFrameLen}
    \cup {[ZeroFrame EXCEPT ![i] = b] : i \in 1 .. 3, b \in Bytes}
    \cup {MkFrame(0, 0, b, 0, 0) : b \in Bytes}
    \cup {MkFrame(0, 0, 0, b, 0) : b \in Bytes}
    \cup {MkFrame(0, 0, 0, 0, b) : b \in Bytes}

ParseInputs == ErrorInputs \cup FramingInputs

ParseIdle == input = << >> /\ result = Pending

ParseInit == input \in ParseInputs /\ result = Pending

\* result = PrinterResponse.from_bytes(input, logger)
Parse ==
    /\ result = Pending
    /\ result' = from_bytes(input)
    /\ UNCHANGED input

(***************************************************************************)
(* backends/{pyusb,network,linux_kernel}.py: the life of a transport       *)
(* object.  linux_kernel.py imports RetryStrategy from .strategies, the    *)
(* other two from .retry_strategies; the class is modelled as written.     *)
(***************************************************************************)
Backends == {"pyusb", "network", "linux_kernel"}

\* what __init__ can leave behind: [ok, attrs, dev_none, handle, was, driver]
\* pyusb.py __init__
init_pyusb(drv) ==
    LET detached == IF drv = "attached" THEN "detached" ELSE drv
        active == drv = "attached"
    IN  { \* extract_vendor_product_serial_from_device_identifier raises
          [ok |-> FALSE, attrs |-> {}, dev_none |-> FALSE, handle |-> "none",
           was |-> FALSE, driver |-> drv],
          \* no device matches: raise ValueError("Device not found")
          [ok |-> FALSE, attrs |-> {"dev"}, dev_none |-> TRUE, handle |-> "none",
           was |-> FALSE, driver |-> drv],
          \* set_configuration raises, or an assert on intf / ep_in / ep_out fails
          [ok |-> FALSE, attrs |-> {"dev", "was_kernel_driver_active"},
           dev_none |-> FALSE, handle |-> "open", was |-> active, driver |-> detached],
          [ok |-> TRUE,
           attrs |-> {"dev", "was_kernel_driver_active", "write_dev", "read_dev"},
           dev_none |-> FALSE, handle |-> "open", was |-> active, driver |-> detached] }

\* network.py __init__
init_network(drv) ==
    { \* int(port) or connect raises before self.s is stored
      [ok |-> FALSE, attrs |-> {}, dev_none |-> FALSE, handle |-> "none",
       was |-> FALSE, driver |-> drv],
      \* neither str nor int: raise NotImplementedError
      [ok |-> FALSE, attrs |-> {}, dev_none |-> FALSE, handle |-> "none",
       was |-> FALSE, driver |-> drv],
      \* an int device_specifier: self.dev is stored, no socket
      [ok |-> TRUE, attrs |-> {"dev"}, dev_none |-> FALSE, handle |-> "none",
       was |-> FALSE, driver |-> drv],
      [ok |-> TRUE, attrs |-> {"s"}, dev_none |-> FALSE, handle |-> "open",
       was |-> FALSE, driver |-> drv] }

\* linux_kernel.py __init__ and get_device
init_linux_kernel(drv) ==
    { \* os.open raises, or the specifier is neither str nor int
      [ok |-> FALSE, attrs |-> {}, dev_none |-> FALSE, handle |-> "none",
       was |-> FALSE, driver |-> drv],
      [ok |-> TRUE, attrs |-> {"dev", "write_dev", "read_dev"}, dev_none |-> FALSE,
       handle |-> "open", was |-> FALSE, driver |-> drv] }

\* what _dispose does to the object o = [attrs, dev_none, handle, was, driver,
\* releases, foreign]: the object after it and the exception it raised ("" when
\* it returned)
\* pyusb.py _dispose
dispose_pyusb(o) ==
    IF "dev" \notin o.attrs \/ o.dev_none
    THEN {[o |-> o, raised |-> "AttributeError"]}
    ELSE LET \* usb.util.dispose_resources(self.dev)
             o1 == IF o.handle = "open"
                   THEN [o EXCEPT !.handle = "closed", !.releases = @ + 1]
                   ELSE o
         IN  IF "write_dev" \notin o1.attrs \/ "read_dev" \notin o1.attrs
             THEN {[o |-> o1, raised |-> "AttributeError"]}
             ELSE LET \* del self.write_dev, self.read_dev
                      o2 == [o1 EXCEPT !.attrs = @ \ {"write_dev", "read_dev"}]
                      \* if self.was_kernel_driver_active: attach_kernel_driver(0)
                      o3 == IF o2.was THEN [o2 EXCEPT !.driver = "attached"] ELSE o2
                      \* del self.dev
                  IN  {[o |-> [o3 EXCEPT !.attrs = @ \ {"dev"}], raised |-> ""]}

\* network.py _dispose
dispose_network(o) ==
    IF "s" \notin o.attrs
    THEN {[o |-> o, raised |-> "AttributeError"]}
    ELSE IF o.handle # "open"
    THEN \* self.s.shutdown on a closed socket
         {[o |-> o, raised |-> "OSError"]}
    ELSE { \* the peer is gone: shutdown raises, close is not reached
           [o |-> o, raised |-> "OSError"],
           [o |-> [o EXCEPT !.handle = "closed", !.releases = @ + 1], raised |-> ""] }

\* linux_kernel.py _dispose
dispose_linux_kernel(o) ==
    IF "dev" \notin o.attrs
    THEN {[o |-> o, raised |-> "AttributeError"]}
    ELSE IF o.handle = "open"
    THEN {[o |-> [o EXCEPT !.handle = "closed", !.releases = @ + 1], raised |-> ""]}
    ELSE IF o.handle = "reused"
    THEN \* the descriptor number now names a file some other code opened
         {[o |-> [o EXCEPT !.handle = "closed", !.foreign = @ + 1], raised |-> ""]}
    ELSE \* os.close of a closed descriptor
         {[o |-> o, raised |-> "OSError"]}

init_of(b, drv) ==
    CASE b = "pyusb" -> init_pyusb(drv)
      [] b = "network" -> init_network(drv)
      [] b = "linux_kernel" -> init_linux_kernel(drv)

dispose_of(b, o) ==
    CASE b = "pyusb" -> dispose_pyusb(o)
      [] b = "network" -> dispose_network(o)
      [] b = "linux_kernel" -> dispose_linux_kernel(o)

\* abstract.py dispose: try: self._dispose() except NotImplementedError: pass
Swallows(e) == e = "NotImplementedError"

Object ==
    [attrs |-> attrs, dev_none |-> dev_none, handle |-> handle, was |-> was,
     driver |-> driver, releases |-> releases, foreign |-> foreign]

\* one invocation of dispose() on the object
dispose ==
    /\ calls' = calls + 1
    /\ \E d \in dispose_of(backend, Object) :
        /\ attrs' = d.o.attrs
        /\ handle' = d.o.handle
        /\ driver' = d.o.driver
        /\ releases' = d.o.releases
        /\ foreign' = d.o.foreign
        /\ raises_' = IF d.raised # "" /\ ~Swallows(d.raised) THEN raises_ + 1 ELSE raises_
    /\ UNCHANGED <<backend, dev_none, was, rd>>

BackendIdle ==
    /\ backend = "pyusb"
    /\ life = "new"
    /\ attrs = {}
    /\ dev_none = FALSE
    /\ handle = "none"
    /\ was = FALSE
    /\ driver = "none"
    /\ releases = 0
    /\ foreign = 0
    /\ calls = 0
    /\ raises_ = 0
    /\ rd = [pc |-> "idle", strategy |-> "TRY_TWICE", data |-> << >>, elapsed |-> 0,
             reads |-> << >>, ret |-> << >>, exc |-> ""]

BackendInit ==
    /\ backend \in Backends
    /\ life = "new"
    /\ attrs = {}
    /\ dev_none = FALSE
    /\ handle = "none"
    /\ was = FALSE
    /\ driver \in {"none", "attached"}
    /\ releases = 0
    /\ foreign = 0
    /\ calls = 0
    /\ raises_ = 0
    /\ rd = [pc |-> "idle", strategy |-> "TRY_TWICE", data |-> << >>, elapsed |-> 0,
             reads |-> << >>, ret |-> << >>, exc |-> ""]

\* backend.printer(identifier): the constructor runs, and returns or raises
Construct ==
    /\ life = "new"
    /\ \E i \in init_of(backend, driver) :
        /\ life' = IF i.ok THEN "constructed" ELSE "failed"
        /\ attrs' = i.attrs
        /\ dev_none' = i.dev_none
        /\ handle' = i.handle
        /\ was' = i.was
        /\ driver' = i.driver
    /\ UNCHANGED <<backend, releases, foreign, calls, raises_, rd>>

\* the caller, who holds the object only when the constructor returned,
\* calls dispose()
Dispose ==
    /\ life = "constructed"
    /\ calls < MaxDispose
    /\ dispose
    /\ UNCHANGED life

\* the object is collected: __del__ calls dispose()
Del ==
    /\ life \in {"constructed", "failed"}
    /\ dispose
    /\ life' = "deleted"

\* some other code of the process opens a file and is given the descriptor
\* number that os.close released
FdReuse ==
    /\ backend = "linux_kernel"
    /\ life = "constructed"
    /\ handle = "closed"
    /\ handle' = "reused"
    /\ UNCHANGED <<backend, life, attrs, dev_none, was, driver, releases, foreign,
                   calls, raises_, rd>>

(***************************************************************************)
(* backends/linux_kernel.py, network.py, pyusb.py: _read(length), the raw  *)
(* read behind self.read().  rd holds one call: the RETRY_STRATEGY of the  *)
(* class, the local variable data, time.time() - start in milliseconds,    *)
(* the raw reads made (os.read, recv, ep.read: where in the code, and what *)
(* each answered) and what the call returned or raised                     *)
(***************************************************************************)
\* the enum RetryStrategy
RetryStrategy == {"SELECT", "TRY_TWICE", "SOCKET_TIMEOUT"}

READ_TIMEOUT == 10  \* 0.01 s, for pyusb 10.0 ms

\* _read(length) is called.  TRY_TWICE and SOCKET_TIMEOUT run to their
\* return: a raw read answers bytes, none when the device has nothing, and
\* recv raises socket.timeout as well.  SELECT runs to the head of its loop
Read ==
    /\ rd.pc = "idle"
    /\ \E first \in {[answered |-> "data", got |-> d] : d \in {<< >>, ShortRead, BadHeader}}
                    \cup {[answered |-> "timeout", got |-> << >>]},
          second \in {[answered |-> "data", got |-> d] : d \in {<< >>, ShortRead, BadHeader}}
                    \cup {[answered |-> "timeout", got |-> << >>]} :
           /\ backend # "network" => first.answered = "data" /\ second.answered = "data"
           /\ rd' =
                CASE rd.strategy = "SELECT" ->
                         [rd EXCEPT !.pc = "while", !.data = << >>, !.elapsed = 0]
                  [] rd.strategy = "TRY_TWICE" /\ backend # "network" ->
                         IF first.got # << >>
                         THEN [rd EXCEPT !.pc = "returned", !.ret = first.got,
                                         !.reads = <<[at |-> "first"] @@ first>>]
                         ELSE [rd EXCEPT !.pc = "returned", !.ret = second.got,
                                         !.elapsed = READ_TIMEOUT,
                                         !.reads = <<[at |-> "first"] @@ first,
                                                     [at |-> "second"] @@ second>>]
                  [] rd.strategy = "SOCKET_TIMEOUT" /\ backend # "network" ->
                         [rd EXCEPT !.pc = "raised", !.exc = "NotImplementedError"]
                  [] OTHER ->
                         IF first.answered = "data"
                         THEN [rd EXCEPT !.pc = "returned", !.ret = first.got,
                                         !.reads = <<[at |-> "first"] @@ first>>]
                         ELSE IF rd.strategy = "SOCKET_TIMEOUT"
                         THEN [rd EXCEPT !.pc = "returned", !.ret = << >>,
                                         !.reads = <<[at |-> "first"] @@ first>>]
                         ELSE [rd EXCEPT !.pc = "returned",
                                         !.ret = IF second.answered = "data"
                                                 THEN second.got ELSE << >>,
                                         !.reads = <<[at |-> "first"] @@ first,
                                                     [at |-> "second"] @@ second>>]
    /\ UNCHANGED <<backend, life, attrs, dev_none, handle, was, driver, releases, foreign,
                   calls, raises_>>

\* one turn of "while (not data) and (time.time() - start < READ_TIMEOUT)":
\* select answers at once; a handle that is ready is read; with data the
\* loop is left by break, without it the turn ends in time.sleep(0.001)
Select ==
    /\ rd.pc = "while"
    /\ rd.data = << >> /\ rd.elapsed < READ_TIMEOUT
    /\ \E ready \in BOOLEAN, d \in {<< >>, ShortRead, BadHeader}, dt \in 1 .. MaxPoll :
           rd' = IF ready
                 THEN [rd EXCEPT !.data = @ \o d,
                                 !.reads = Append(@, [at |-> "loop", answered |-> "data",
                                                      got |-> d]),
                                 !.elapsed = IF d # << >> THEN @
                                             ELSE Min(@ + dt, READ_TIMEOUT)]
                 ELSE [rd EXCEPT !.elapsed = Min(@ + dt, READ_TIMEOUT)]
    /\ UNCHANGED <<backend, life, attrs, dev_none, handle, was, driver, releases, foreign,
                   calls, raises_>>

\* the loop is left: linux_kernel and pyusb read once more when data is
\* empty ("one last try if still no data"), network returns data as it is
Return ==
    /\ rd.pc = "while"
    /\ ~(rd.data = << >> /\ rd.elapsed < READ_TIMEOUT)
    /\ \E d \in {<< >>, ShortRead, BadHeader} :
           rd' = IF rd.data = << >> /\ backend # "network"
                 THEN [rd EXCEPT !.pc = "returned", !.ret = d,
                                 !.reads = Append(@, [at |-> "last", answered |-> "data",
                                                      got |-> d])]
                 ELSE [rd EXCEPT !.pc = "returned", !.ret = rd.data]
    /\ UNCHANGED <<backend, life, attrs, dev_none, handle, was, driver, releases, foreign,
                   calls, raises_>>

(***************************************************************************)
(* models.py and labels/__init__.py: the catalogs and their look-ups;      *)
(* the threshold conversion of raster.py and labels/label_options.py       *)
(***************************************************************************)
Max(a, b) == IF a > b THEN a ELSE b

\* the dataclass Model: the two positional fields and the field defaults
Model(identifier, min_max_length_dots) ==
    [identifier |-> identifier, min_max_length_dots |-> min_max_length_dots,
     min_max_feed |-> <<35, 1500>>, number_bytes_per_row |-> 90,
     additional_offset_r |-> 0, mode_setting |-> TRUE, cutting |-> TRUE,
     expanded_mode |-> TRUE, compression |-> TRUE, two_color |-> FALSE]

\* the enum Models: member name |-> member value; keyword arguments of a
\* member are the fields written to the left of @@
Models == [
    QL500 |-> [compression |-> FALSE, mode_setting |-> FALSE,
               expanded_mode |-> FALSE, cutting |-> FALSE]
              @@ Model("QL-500", <<295, 11811>>),
    QL550 |-> [compression |-> FALSE, mode_setting |-> FALSE]
              @@ Model("QL-550", <<295, 11811>>),
    QL560 |-> [compression |-> FALSE, mode_setting |-> FALSE]
              @@ Model("QL-560", <<295, 11811>>),
    QL570 |-> [compression |-> FALSE, mode_setting |-> FALSE]
              @@ Model("QL-570", <<150, 11811>>),
    QL580N |-> Model("QL-580N", <<150, 11811>>),
    QL650TD |-> Model("QL-650TD", <<295, 11811>>),
    QL700 |-> [compression |-> FALSE, mode_setting |-> FALSE]
              @@ Model("QL-700", <<150, 11811>>),
    QL710W |-> Model("QL-710W", <<150, 11811>>),
    QL720NW |-> Model("QL-720NW", <<150, 11811>>),
    QL800 |-> [two_color |-> TRUE, compression |-> FALSE]
              @@ Model("QL-800", <<150, 11811>>),
    QL810W |-> [two_color |-> TRUE] @@ Model("QL-810W", <<150, 11811>>),
    QL820NWB |-> [two_color |-> TRUE] @@ Model("QL-820NWB", <<150, 11811>>),
    QL1050 |-> [number_bytes_per_row |-> 162, additional_offset_r |-> 44]
               @@ Model("QL-1050", <<295, 35433>>),
    QL1060N |-> [number_bytes_per_row |-> 162, additional_offset_r |-> 44]
                @@ Model("QL-1060N", <<295, 35433>>),
    PTP750W |-> [number_bytes_per_row |-> 16] @@ Model("PT-P750W", <<31, 14172>>),
    PTP900W |-> [number_bytes_per_row |-> 70] @@ Model("PT-P900W", <<57, 28346>>)]

\* Models.identifiers()
identifiers == {Models[n].identifier : n \in DOMAIN Models}

\* str.upper() on the strings the model hands to from_identifier: every one
\* of them but the two lower case ones is its own upper case
upper(s) ==
    CASE s = "ql-500" -> "QL-500"
      [] s = "ql500" -> "QL500"
      [] OTHER -> s

\* Models.from_identifier: Models[identifier.upper()] is the look-up of a
\* member by its name; KeyError becomes BrotherQLUnknownModel
from_identifier(identifier) ==
    IF upper(identifier) \in DOMAIN Models
    THEN [raised |-> "", value |-> Models[upper(identifier)]]
    ELSE [raised |-> "BrotherQLUnknownModel", value |-> FALSE]

FormFactor == [DIE_CUT |-> 1, ENDLESS |-> 2, ROUND_DIE_CUT |-> 3, PTOUCH_ENDLESS |-> 4]

\* the dataclass Label: the six positional fields and the field defaults
Label(identifier, tape_size, form_factor, dots_total, dots_printable, offset_r) ==
    [identifier |-> identifier, tape_size |-> tape_size,
     form_factor |-> form_factor, dots_total |-> dots_total,
     dots_printable |-> dots_printable, offset_r |-> offset_r,
     feed_margin |-> 0, restricted_to_models |-> << >>, color |-> "BLACK_WHITE"]

\* the enum Labels: member name |-> member value; restricted_to_models holds
\* the names of the members of Models
Labels == [
    L12 |->
        [feed_margin |-> 35]
        @@ Label("12", <<12, 0>>, FormFactor.ENDLESS,
              <<142, 0>>, <<106, 0>>, 29),
    L29 |->
        [feed_margin |-> 35]
        @@ Label("29", <<29, 0>>, FormFactor.ENDLESS,
              <<342, 0>>, <<306, 0>>, 6),
    L38 |->
        [feed_margin |-> 35]
        @@ Label("38", <<38, 0>>, FormFactor.ENDLESS,
              <<449, 0>>, <<413, 0>>, 12),
    L50 |->
        [feed_margin |-> 35]
        @@ Label("50", <<50, 0>>, FormFactor.ENDLESS,
              <<590, 0>>, <<554, 0>>, 12),
    L54 |->
        [feed_margin |-> 35]
        @@ Label("54", <<54, 0>>, FormFactor.ENDLESS,
              <<636, 0>>, <<590, 0>>, 0),
    L62 |->
        [feed_margin |-> 35]
        @@ Label("62", <<62, 0>>, FormFactor.ENDLESS,
              <<732, 0>>, <<696, 0>>, 12),
    L62RED |->
        [feed_margin |-> 35, color |-> "BLACK_RED_WHITE"]
        @@ Label("62red", <<62, 0>>, FormFactor.ENDLESS,
              <<732, 0>>, <<696, 0>>, 12),
    L102 |->
        [feed_margin |-> 35, restricted_to_models |-> <<"QL1050", "QL1060N">>]
        @@ Label("102", <<102, 0>>, FormFactor.ENDLESS,
              <<1200, 0>>, <<1164, 0>>, 12),
    L17X54 |->
        Label("17x54", <<17, 54>>, FormFactor.DIE_CUT,
              <<201, 636>>, <<165, 566>>, 0),
    L17X87 |->
        Label("17x87", <<17, 87>>, FormFactor.DIE_CUT,
              <<201, 1026>>, <<165, 956>>, 0),
    L23X23 |->
        Label("23x23", <<23, 23>>, FormFactor.DIE_CUT,
              <<272, 272>>, <<202, 202>>, 42),
    L29X42 |->
        Label("29x42", <<29, 42>>, FormFactor.DIE_CUT,
              <<342, 495>>, <<306, 425>>, 6),
    L29X90 |->
        Label("29x90", <<29, 90>>, FormFactor.DIE_CUT,
              <<342, 1061>>, <<306, 991>>, 6),
    L39X90 |->
        Label("39x90", <<38, 90>>, FormFactor.DIE_CUT,
              <<449, 1061>>, <<413, 991>>, 12),
    L39X48 |->
        Label("39x48", <<39, 48>>, FormFactor.DIE_CUT,
              <<461, 565>>, <<425, 495>>, 6),
    L52X29 |->
        Label("52x29", <<52, 29>>, FormFactor.DIE_CUT,
              <<614, 341>>, <<578, 271>>, 0),
    L62X29 |->
        Label("62x29", <<62, 29>>, FormFactor.DIE_CUT,
              <<732, 341>>, <<696, 271>>, 12),
    L62X100 |->
        Label("62x100", <<62, 100>>, FormFactor.DIE_CUT,
              <<732, 1179>>, <<696, 1109>>, 12),
    L102X51 |->
        [restricted_to_models |-> <<"QL1050", "QL1060N">>]
        @@ Label("102x51", <<102, 51>>, FormFactor.DIE_CUT,
              <<1200, 596>>, <<1164, 526>>, 12),
    L102X152 |->
        [restricted_to_models |-> <<"QL1050", "QL1060N">>]
        @@ Label("102x152", <<102, 153>>, FormFactor.DIE_CUT,
              <<1200, 1804>>, <<1164, 1660>>, 12),
    LD12 |->
        [feed_margin |-> 35]
        @@ Label("d12", <<12, 12>>, FormFactor.ROUND_DIE_CUT,
              <<142, 142>>, <<94, 94>>, 113),
    LD24 |->
        Label("d24", <<24, 24>>, FormFactor.ROUND_DIE_CUT,
              <<284, 284>>, <<236, 236>>, 42),
    LD58 |->
        Label("d58", <<58, 58>>, FormFactor.ROUND_DIE_CUT,
              <<688, 688>>, <<618, 618>>, 51),
    LPT24 |->
        [feed_margin |-> 14]
        @@ Label("pt24", <<24, 0>>, FormFactor.PTOUCH_ENDLESS,
              <<128, 0>>, <<128, 0>>, 0)]

\* variant: a label without restriction works with every model
works_with_model_unrestricted(label, model) ==
    \/ Len(label.restricted_to_models) = 0
    \/ \E i \in 1 .. Len(label.restricted_to_models) :
           model = Models[label.restricted_to_models[i]]

\* Label.works_with_model
works_with_model(label, model) ==
    IF Len(label.restricted_to_models) = 0
    THEN FALSE
    ELSE \E i \in 1 .. Len(label.restricted_to_models) :
             model = Models[label.restricted_to_models[i]]

\* int(x) of the quotient n / d: truncation towards zero
Trunc(n, d) == IF n >= 0 THEN n \div d ELSE -((-n) \div d)

\* variant: the percentage is scaled without being subtracted from 100
threshold_level_direct(threshold) ==
    Min(255, Max(0, Trunc(threshold * 255, 100)))

\* threshold = 100.0 - threshold
\* threshold = min(255, max(0, int(threshold / 100.0 * 255)))
threshold_level(threshold) ==
    Min(255, Max(0, Trunc((100 - threshold) * 255, 100)))

\* the calls the model makes: one look-up or conversion per behaviour
NoQuery == [op |-> "none", identifier |-> "", label |-> "L12", model |-> "QL500",
            threshold |-> 0]

Queries ==
    {[NoQuery EXCEPT !.op = "from_identifier", !.identifier = s] :
        s \in identifiers \cup DOMAIN Models \cup {"ql-500", "ql500", "QL-999", ""}}
    \cup {[NoQuery EXCEPT !.op = "works_with_model", !.label = l, !.model = m] :
        l \in DOMAIN Labels, m \in DOMAIN Models}
    \cup {[NoQuery EXCEPT !.op = "threshold", !.threshold = t] :
        t \in (100 - MaxThreshold) .. MaxThreshold}

Unanswered == [raised |-> "pending", value |-> FALSE]

CatalogIdle == query = NoQuery /\ answer = Unanswered

CatalogInit == query \in Queries /\ answer = Unanswered

\* answer = Models.from_identifier(query.identifier)
FromIdentifier ==
    /\ query.op = "from_identifier" /\ answer.raised = "pending"
    /\ answer' = from_identifier(query.identifier)
    /\ UNCHANGED query

\* answer = Labels.<label>.value.works_with_model(Models.<model>.value)
WorksWithModel ==
    /\ query.op = "works_with_model" /\ answer.raised = "pending"
    /\ answer' = [raised |-> "",
                  value |-> works_with_model(Labels[query.label], Models[query.model])]
    /\ UNCHANGED query

\* the conversion of kwargs["threshold"] / d["threshold"]
Threshold ==
    /\ query.op = "threshold" /\ answer.raised = "pending"
    /\ answer' = [raised |-> "", value |-> threshold_level(query.threshold)]
    /\ UNCHANGED query

(***************************************************************************)
(* Row compression: packbits.encode as called by add_raster_data           *)
(* (raster.py), and the decompression loop of BrotherQLReader.analyse      *)
(* (reader.py)                                                             *)
(***************************************************************************)
\* a literal run: its length less one, then the bytes; nothing for no bytes
finish_raw(buf) == IF Len(buf) = 0 THEN << >> ELSE <<Len(buf) - 1>> \o buf

\* a repeat run of count bytes: 256 - (count - 1), then the byte
finish_rle(count, byte) == <<256 - (count - 1), byte>>

\* one iteration of the scan of packbits.encode over d, a run being at most
\* 127 bytes before it is restarted; s.pos is the index of the current byte
encode_step(d, s) ==
    LET next == [s EXCEPT !.pos = s.pos + 1]
    IN  IF d[s.pos] = d[s.pos + 1]
        THEN IF s.state = "RAW"
             THEN [next EXCEPT !.state = "RLE", !.buf = << >>, !.repeat_count = 1,
                               !.out = s.out \o finish_raw(s.buf)]
             ELSE IF s.repeat_count = 127
             THEN [next EXCEPT !.repeat_count = 1,
                               !.out = s.out \o finish_rle(s.repeat_count, d[s.pos])]
             ELSE [next EXCEPT !.repeat_count = s.repeat_count + 1]
        ELSE IF s.state = "RLE"
             THEN [next EXCEPT !.state = "RAW", !.repeat_count = 0,
                               !.out = s.out \o finish_rle(s.repeat_count + 1, d[s.pos])]
             ELSE IF Len(s.buf) = 127
             THEN [next EXCEPT !.buf = <<d[s.pos]>>,
                               !.out = s.out \o finish_raw(s.buf)]
             ELSE [next EXCEPT !.buf = Append(s.buf, d[s.pos])]

\* variant: a repeat run of count -num instead of -num + 1
repeat_count_of_short(num) == -num

\* num = -num + 1
repeat_count_of(num) == -num + 1

\* one iteration of the while True loop of analyse over the raster payload
\* rpl; s.index is the Python index plus one
decompress_step(rpl, s) ==
    IF s.index > Len(rpl)
    THEN [s EXCEPT !.raised = "IndexError"]
    ELSE LET num == IF rpl[s.index] >= 128 THEN rpl[s.index] - 256 ELSE rpl[s.index]
         IN  IF num < 0
             THEN IF s.index + 1 > Len(rpl)
                  THEN [s EXCEPT !.raised = "IndexError"]
                  ELSE [s EXCEPT !.index = s.index + 2,
                                 !.row = s.row \o [k \in 1 .. repeat_count_of(num) |->
                                                      rpl[s.index + 1]],
                                 !.stop = s.index + 2 > Len(rpl)]
             ELSE [s EXCEPT !.index = s.index + 1 + num + 1,
                            !.row = s.row \o SubSeq(rpl, s.index + 1,
                                                    Min(s.index + num + 1, Len(rpl))),
                            !.stop = s.index + 1 + num + 1 > Len(rpl)]

(***************************************************************************)
(* constants.py OPCODES and reader.py chunker                              *)
(***************************************************************************)
\* variant: a table with a signature that begins other signatures
OPCODES_with_escape == <<
    << <<27>>, "escape", 0 >>,
    << <<0>>, "preamble", -1 >>,
    << <<77>>, "compression", 1 >>,
    << <<103>>, "raster QL", -1 >>,
    << <<71>>, "raster P-touch", -1 >>,
    << <<119>>, "2-color raster QL", -1 >>,
    << <<90>>, "zero raster", 0 >>,
    << <<12>>, "print", 0 >>,
    << <<26>>, "print", 0 >>,
    << <<27, 64>>, "init", 0 >>,
    << <<27, 105, 97>>, "mode setting", 1 >>,
    << <<27, 105, 33>>, "automatic status", 1 >>,
    << <<27, 105, 122>>, "media/quality", 10 >>,
    << <<27, 105, 77>>, "various", 1 >>,
    << <<27, 105, 65>>, "cut-every", 1 >>,
    << <<27, 105, 75>>, "expanded", 1 >>,
    << <<27, 105, 100>>, "margins", 2 >>,
    << <<27, 105, 85, 119, 1>>, "amedia", 127 >>,
    << <<27, 105, 85, 74>>, "jobid", 14 >>,
    << <<27, 105, 88, 71>>, "request_config", 0 >>,
    << <<27, 105, 83>>, "status request", 0 >>,
    << <<128, 32, 66>>, "status response", 29 >>
    >>

\* signature, name, following bytes
OPCODES == <<
    << <<0>>, "preamble", -1 >>,
    << <<77>>, "compression", 1 >>,
    << <<103>>, "raster QL", -1 >>,
    << <<71>>, "raster P-touch", -1 >>,
    << <<119>>, "2-color raster QL", -1 >>,
    << <<90>>, "zero raster", 0 >>,
    << <<12>>, "print", 0 >>,
    << <<26>>, "print", 0 >>,
    << <<27, 64>>, "init", 0 >>,
    << <<27, 105, 97>>, "mode setting", 1 >>,
    << <<27, 105, 33>>, "automatic status", 1 >>,
    << <<27, 105, 122>>, "media/quality", 10 >>,
    << <<27, 105, 77>>, "various", 1 >>,
    << <<27, 105, 65>>, "cut-every", 1 >>,
    << <<27, 105, 75>>, "expanded", 1 >>,
    << <<27, 105, 100>>, "margins", 2 >>,
    << <<27, 105, 85, 119, 1>>, "amedia", 127 >>,
    << <<27, 105, 85, 74>>, "jobid", 14 >>,
    << <<27, 105, 88, 71>>, "request_config", 0 >>,
    << <<27, 105, 83>>, "status request", 0 >>,
    << <<128, 32, 66>>, "status response", 29 >>
    >>

\* match_opcode(data[pos:]): the index in OPCODES of the one signature the
\* data starts with; 0 when the assertion of exactly one match fails
match_opcode(d, pos) ==
    LET matching_opcodes ==
            {i \in 1 .. Len(OPCODES) :
                /\ pos + Len(OPCODES[i][1]) - 1 <= Len(d)
                /\ \A k \in 1 .. Len(OPCODES[i][1]) : d[pos + k - 1] = OPCODES[i][1][k]}
    IN  IF Cardinality(matching_opcodes) = 1
        THEN CHOOSE i \in matching_opcodes : TRUE
        ELSE 0

\* variant: two bytes are skipped when no signature matches
chunker_step_skipping_two(env, s) ==
    LET length_bytes(opcode_def) ==
            IF opcode_def[3] > 0 THEN 0
            ELSE IF opcode_def[2] \in {"raster QL", "2-color raster QL",
                                       "raster P-touch"} THEN 2
            ELSE 0
        num_bytes(d, pos, opcode_def) ==
            Len(opcode_def[1])
            + (IF opcode_def[3] > 0 THEN opcode_def[3]
               ELSE IF opcode_def[2] \in {"raster QL", "2-color raster QL"}
               THEN d[pos + 2] + 2
               ELSE IF opcode_def[2] = "raster P-touch"
               THEN d[pos + 1] + d[pos + 2] * 256 + 2
               ELSE 0)
        chunk_at(m) ==
            IF m = 0
            THEN IF env.raise_exception
                 THEN [s EXCEPT !.raised = "ValueError"]
                 ELSE [s EXCEPT !.pos = s.pos + 2]
            ELSE IF s.pos + length_bytes(OPCODES[m]) > Len(env.data)
            THEN [s EXCEPT !.raised = "IndexError"]
            ELSE [s EXCEPT !.instructions =
                               Append(@, SubSeq(env.data, s.pos,
                                                Min(s.pos + num_bytes(env.data, s.pos,
                                                                      OPCODES[m]) - 1,
                                                    Len(env.data)))),
                           !.pos = s.pos + num_bytes(env.data, s.pos, OPCODES[m])]
    IN  chunk_at(match_opcode(env.data, s.pos))

\* variant: a raster QL row is taken one byte short
chunker_step_row_short(env, s) ==
    LET length_bytes(opcode_def) ==
            IF opcode_def[3] > 0 THEN 0
            ELSE IF opcode_def[2] \in {"raster QL", "2-color raster QL",
                                       "raster P-touch"} THEN 2
            ELSE 0
        num_bytes(d, pos, opcode_def) ==
            Len(opcode_def[1])
            + (IF opcode_def[3] > 0 THEN opcode_def[3]
               ELSE IF opcode_def[2] \in {"raster QL", "2-color raster QL"}
               THEN d[pos + 2] + 1
               ELSE IF opcode_def[2] = "raster P-touch"
               THEN d[pos + 1] + d[pos + 2] * 256 + 2
               ELSE 0)
        chunk_at(m) ==
            IF m = 0
            THEN IF env.raise_exception
                 THEN [s EXCEPT !.raised = "ValueError"]
                 ELSE [s EXCEPT !.pos = s.pos + 1]
            ELSE IF s.pos + length_bytes(OPCODES[m]) > Len(env.data)
            THEN [s EXCEPT !.raised = "IndexError"]
            ELSE [s EXCEPT !.instructions =
                               Append(@, SubSeq(env.data, s.pos,
                                                Min(s.pos + num_bytes(env.data, s.pos,
                                                                      OPCODES[m]) - 1,
                                                    Len(env.data)))),
                           !.pos = s.pos + num_bytes(env.data, s.pos, OPCODES[m])]
    IN  chunk_at(match_opcode(env.data, s.pos))

\* one iteration of the while True loop of chunker; the data left to split
\* is env.data from index s.pos on.  length_bytes is the number of bytes
\* behind the signature that are read to find the length of a raster
\* instruction, chunk_at the iteration once match_opcode has answered m
chunker_step(env, s) ==
    LET length_bytes(opcode_def) ==
            IF opcode_def[3] > 0 THEN 0
            ELSE IF opcode_def[2] \in {"raster QL", "2-color raster QL",
                                       "raster P-touch"} THEN 2
            ELSE 0
        num_bytes(d, pos, opcode_def) ==
            Len(opcode_def[1])
            + (IF opcode_def[3] > 0 THEN opcode_def[3]
               ELSE IF opcode_def[2] \in {"raster QL", "2-color raster QL"}
               THEN d[pos + 2] + 2
               ELSE IF opcode_def[2] = "raster P-touch"
               THEN d[pos + 1] + d[pos + 2] * 256 + 2
               ELSE 0)
        chunk_at(m) ==
            IF m = 0
            THEN IF env.raise_exception
                 THEN [s EXCEPT !.raised = "ValueError"]
                 ELSE [s EXCEPT !.pos = s.pos + 1]
            ELSE IF s.pos + length_bytes(OPCODES[m]) > Len(env.data)
            THEN [s EXCEPT !.raised = "IndexError"]
            ELSE [s EXCEPT !.instructions =
                               Append(@, SubSeq(env.data, s.pos,
                                                Min(s.pos + num_bytes(env.data, s.pos,
                                                                      OPCODES[m]) - 1,
                                                    Len(env.data)))),
                           !.pos = s.pos + num_bytes(env.data, s.pos, OPCODES[m])]
    IN  chunk_at(match_opcode(env.data, s.pos))

(***************************************************************************)
(* reader.py: BrotherQLReader.  None is -1; mlength is an attribute only   *)
(* once a media/quality instruction was read.  pages holds, for every      *)
(* image saved at a print opcode, the size of the black image that get_im  *)
(* builds and what the object held then; raised is "pending" until analyse *)
(* was called                                                              *)
(***************************************************************************)
BrotherQLReader ==
    [mwidth |-> -1, mheight |-> -1, mlength |-> -1, raster_no |-> -1,
     black_rows |-> << >>, red_rows |-> << >>, compression |-> FALSE,
     page_counter |-> 1, two_color_printing |-> FALSE, cut_at_end |-> FALSE,
     high_resolution_printing |-> FALSE, pages |-> << >>, raised |-> "pending"]

RECURSIVE decompress(_)
\* one iteration of "for instruction in chunker(instructions)" of analyse();
\* s.reader is the object, s.i the number of the instruction.  opcode_def
\* and payload are those of the one opcode the instruction starts with,
\* row_of the row of a raster payload, saved the branch of the print opcode
\* (get_im answers None for no rows, and None has no transpose or convert),
\* step the ifs of the loop body
analyse_step(instructions, s) ==
    LET opcode_def(instruction) == OPCODES[match_opcode(instruction, 1)]
        payload(instruction) ==
            SubSeq(instruction, Len(opcode_def(instruction)[1]) + 1, Len(instruction))
        width_dots(rows) ==
            CHOOSE w \in {Len(rows[k]) : k \in 1 .. Len(rows)} :
                \A k \in 1 .. Len(rows) : Len(rows[k]) <= w
        with_row(r, lane, unpacked) ==
            IF unpacked.raised # "" THEN [r EXCEPT !.raised = unpacked.raised]
            ELSE IF lane = 1 THEN [r EXCEPT !.black_rows = Append(@, unpacked.row)]
            ELSE IF lane = 2 THEN [r EXCEPT !.red_rows = Append(@, unpacked.row)]
            ELSE [r EXCEPT !.raised = "NotImplementedError"]
        row_of(r, rpl) ==
            IF r.compression THEN decompress(rpl) ELSE [raised |-> "", row |-> rpl]
        saved(r) ==
            IF r.black_rows = << >> \/ (r.two_color_printing /\ r.red_rows = << >>)
            THEN [r EXCEPT !.raised = "AttributeError"]
            ELSE [r EXCEPT !.pages =
                               Append(@, [size |-> <<width_dots(r.black_rows) * 8,
                                                     Len(r.black_rows)>>,
                                          raster_no |-> r.raster_no,
                                          mwidth |-> r.mwidth,
                                          mlength |-> r.mlength]),
                           !.page_counter = @ + 1]
        step(r, instruction, name, pl) ==
            CASE name = "init" ->
                    [r EXCEPT !.mwidth = -1, !.mheight = -1, !.raster_no = -1,
                              !.black_rows = << >>, !.red_rows = << >>]
              [] name = "compression" -> [r EXCEPT !.compression = pl[1] = 2]
              [] name = "zero raster" ->
                    [r EXCEPT !.black_rows = Append(@, << >>),
                              !.red_rows = IF r.two_color_printing
                                           THEN Append(@, << >>) ELSE @]
              [] name \in {"raster QL", "raster P-touch"} ->
                    with_row(r, 1, row_of(r, SubSeq(pl, 3, Len(pl))))
              [] name = "2-color raster QL" ->
                    with_row(r, pl[1], row_of(r, SubSeq(pl, 3, Len(pl))))
              [] name = "expanded" ->
                    [r EXCEPT !.two_color_printing = pl[1] % 2 = 1,
                              !.cut_at_end = (pl[1] \div 8) % 2 = 1,
                              !.high_resolution_printing = (pl[1] \div 64) % 2 = 1]
              [] name = "media/quality" ->
                    [r EXCEPT !.raster_no = pl[5] + 256 * pl[6] + 65536 * pl[7]
                                               + 16777216 * pl[8],
                              !.mwidth = instruction[6],
                              !.mlength = instruction[7] * 256]
              [] name = "print" -> saved(r)
              [] OTHER -> r
    IN  [reader |-> step(s.reader, instructions[s.i],
                         opcode_def(instructions[s.i])[2],
                         payload(instructions[s.i])),
         i |-> s.i + 1]

(***************************************************************************)
(* The while loops of packbits.encode, analyse and chunker.  loop names    *)
(* the loop, env what it reads, s the values of its local variables.  The  *)
(* iterations are evaluated sixteen at a time.                             *)
(***************************************************************************)
\* the condition on which the loop is left
LoopDone(loop, env, s) ==
    CASE loop = "encode" -> s.pos >= Len(env)
      [] loop = "decompress" -> s.stop \/ s.raised # ""
      [] loop = "chunker" -> s.pos > Len(env.data) \/ s.raised # ""
      [] loop = "analyse" -> s.i > Len(env) \/ s.reader.raised # ""
      [] OTHER -> TRUE

\* one iteration, none once the loop is left
LoopStep(loop, env, s) ==
    IF LoopDone(loop, env, s) THEN s
    ELSE CASE loop = "encode" -> encode_step(env, s)
           [] loop = "decompress" -> decompress_step(env, s)
           [] loop = "chunker" -> chunker_step(env, s)
           [] loop = "analyse" -> analyse_step(env, s)
           [] OTHER -> s

LoopStep4(loop, env, s) ==
    LoopStep(loop, env, LoopStep(loop, env, LoopStep(loop, env, LoopStep(loop, env, s))))

LoopStep16(loop, env, s) ==
    LoopStep4(loop, env, LoopStep4(loop, env, LoopStep4(loop, env, LoopStep4(loop, env, s))))

RECURSIVE Loop(_, _, _)
Loop(loop, env, s) ==
    IF LoopDone(loop, env, s) THEN s ELSE Loop(loop, env, LoopStep16(loop, env, s))

\* packbits.encode(row)
packbits_encode(d) ==
    LET encode_last(s) ==
            IF s.state = "RAW"
            THEN s.out \o finish_raw(Append(s.buf, d[s.pos]))
            ELSE s.out \o finish_rle(s.repeat_count + 1, d[s.pos])
    IN  IF Len(d) = 0 THEN << >>
        ELSE IF Len(d) = 1 THEN <<0>> \o d
        ELSE encode_last(Loop("encode", d, [pos |-> 1, state |-> "RAW", buf |-> << >>,
                                           repeat_count |-> 0, out |-> << >>]))

\* list(chunker(d, raise_exception)): the instructions yielded, and the
\* exception that ended the generator, "" when none did
chunker(d, raise_exception) ==
    LET yielded(s) == [raised |-> s.raised, instructions |-> s.instructions]
    IN  yielded(Loop("chunker", [data |-> d, raise_exception |-> raise_exception],
                 [pos |-> 1, instructions |-> << >>, raised |-> ""]))

\* row = bytes(); index = 0; while True: ...
decompress(rpl) ==
    LET decompressed(s) == [raised |-> s.raised, row |-> s.row]
    IN  decompressed(Loop("decompress", rpl,
                      [index |-> 1, row |-> << >>, raised |-> "", stop |-> FALSE]))

\* the rows of a bit plane the model compresses: every row of up to
\* MaxRowLen bytes over three byte values, and rows of the row lengths of the
\* catalog: blank, pairwise distinct bytes, pairs, a blank half
SampleRow(kind, n) ==
    [j \in 1 .. n |->
        CASE kind = "blank" -> 0
          [] kind = "distinct" -> (j - 1) % 256
          [] kind = "pairs" -> ((j - 1) \div 2) % 256
          [] OTHER -> IF 2 * j <= n THEN 0 ELSE (j - 1) % 256]

Rows ==
    UNION {[1 .. n -> {0, 1, 255}] : n \in 1 .. MaxRowLen}
    \cup {SampleRow(kind, n) : kind \in {"blank", "distinct", "pairs", "half"},
                               n \in {Models[m].number_bytes_per_row : m \in DOMAIN Models}}

CodecIdle ==
    codec = [row |-> << >>, packed |-> << >>, stage |-> "idle",
             unpacked |-> [raised |-> "pending", row |-> << >>]]

CodecInit ==
    \E row \in Rows :
        codec = [row |-> row, packed |-> << >>, stage |-> "row",
                 unpacked |-> [raised |-> "pending", row |-> << >>]]

\* add_raster_data with self._compression set: row = packbits.encode(row)
Compress ==
    /\ codec.stage = "row"
    /\ codec' = [codec EXCEPT !.packed = packbits_encode(codec.row), !.stage = "packed"]

\* analyse with self.compression set, on the raster payload
Decompress ==
    /\ codec.stage = "packed"
    /\ codec' = [codec EXCEPT !.unpacked = decompress(codec.packed), !.stage = "unpacked"]

(***************************************************************************)
(* raster.py: BrotherQLRaster.  An encoder object is a record of its       *)
(* attributes; log is history, the byte strings appended to data one by    *)
(* one.  An operation answers [q |-> the object after it, raised |-> the   *)
(* exception class that left it, "" when it returned].                     *)
(***************************************************************************)
\* the tables raster.py imports from .devicedependent, read off the catalogs;
\* Supporting(flag) is the identifiers of the models whose flag is set
devicedependent ==
  LET Supporting(flag) ==
          {Models[n].identifier : n \in {m \in DOMAIN Models : Models[m][flag]}}
  IN [
    models |-> identifiers,
    modesetting |-> Supporting("mode_setting"),
    cuttingsupport |-> Supporting("cutting"),
    expandedmode |-> Supporting("expanded_mode"),
    compressionsupport |-> Supporting("compression"),
    two_color_support |-> Supporting("two_color"),
    number_bytes_per_row |->
        [id \in identifiers |->
            Models[CHOOSE n \in DOMAIN Models : Models[n].identifier = id].number_bytes_per_row],
    label_type_specs |->
        [id \in {Labels[l].identifier : l \in DOMAIN Labels} |->
            LET label == Labels[CHOOSE l \in DOMAIN Labels : Labels[l].identifier = id]
            IN  [kind |-> label.form_factor, tape_size |-> label.tape_size,
                 dots_printable |-> label.dots_printable,
                 feed_margin |-> label.feed_margin]]]

\* BrotherQLRaster(model); mtype, mwidth and mlength are no attributes of a
\* new object: << >> says so
BrotherQLRaster(model) ==
    [model |-> model, data |-> << >>, pquality |-> TRUE, page_number |-> 0,
     cut_at_end |-> TRUE, dpi_600 |-> FALSE, two_color_printing |-> FALSE,
     compression |-> FALSE, exception_on_warning |-> FALSE,
     mtype |-> << >>, mwidth |-> << >>, mlength |-> << >>, log |-> << >>]

\* variant: the instruction replaces what the buffer holds
Emit_replacing(q, instruction) ==
    [q EXCEPT !.data = instruction, !.log = Append(@, instruction)]

\* self.data += instruction
Emit(q, instruction) ==
    [q EXCEPT !.data = @ \o instruction, !.log = Append(@, instruction)]

Ok(q) == [q |-> q, raised |-> ""]

\* struct.pack("<H", n) and struct.pack("<L", n)
pack(size, n) == [k \in 1 .. size |-> (n \div (256 ^ (k - 1))) % 256]

\* variant: the warning is logged whatever exception_on_warning is
_warn_logs_only(q, kind) == Ok(q)

_warn(q, kind) ==
    [q |-> q, raised |-> IF q.exception_on_warning THEN kind ELSE ""]

_unsupported(q) == _warn(q, "BrotherQLUnsupportedCmd")

two_color_support(q) == q.model \in devicedependent.two_color_support

add_initialize(q) == Ok(Emit([q EXCEPT !.page_number = 0], <<27, 64>>))

add_status_information(q) == Ok(Emit(q, <<27, 105, 83>>))

add_switch_mode(q) ==
    IF q.model \notin devicedependent.modesetting
    THEN _unsupported(q)
    ELSE Ok(Emit(q, <<27, 105, 97, 1>>))

add_invalidate(q) == Ok(Emit(q, [k \in 1 .. 200 |-> 0]))

\* self._mtype of an object that has no such attribute raises AttributeError
\* after the three opcode bytes were appended
add_media_and_quality(q, rnumber) ==
    IF q.mtype = << >> \/ q.mwidth = << >> \/ q.mlength = << >>
    THEN [q |-> Emit(q, <<27, 105, 122>>), raised |-> "AttributeError"]
    ELSE Ok(Emit(q, <<27, 105, 122, 128 + 2 + 4 + 8 + (IF q.pquality THEN 64 ELSE 0)>>
                    \o q.mtype \o q.mwidth \o q.mlength \o pack(4, rnumber)
                    \o <<IF q.page_number = 0 THEN 0 ELSE 1, 0>>))

add_autocut(q, autocut) ==
    IF q.model \notin devicedependent.cuttingsupport
    THEN _unsupported(q)
    ELSE Ok(Emit(q, <<27, 105, 77, IF autocut THEN 64 ELSE 0>>))

add_cut_every(q, n) ==
    IF q.model \notin devicedependent.cuttingsupport
    THEN _unsupported(q)
    ELSE Ok(Emit(q, <<27, 105, 65, n % 256>>))

add_expanded_mode(q) ==
    IF q.model \notin devicedependent.expandedmode
    THEN _unsupported(q)
    ELSE IF q.two_color_printing /\ ~two_color_support(q)
    THEN _unsupported(q)
    ELSE Ok(Emit(q, <<27, 105, 75,
                      (IF q.cut_at_end THEN 8 ELSE 0) + (IF q.dpi_600 THEN 64 ELSE 0)
                      + (IF q.two_color_printing THEN 1 ELSE 0)>>))

\* variant: the margin is written as one byte
add_margins_one_byte(q, dots) == Ok(Emit(q, <<27, 105, 100, dots % 256>>))

add_margins(q, dots) == Ok(Emit(q, <<27, 105, 100>> \o pack(2, dots)))

add_compression(q, compression) ==
    IF q.model \notin devicedependent.compressionsupport
    THEN _unsupported(q)
    ELSE Ok(Emit([q EXCEPT !.compression = compression],
                 <<77, IF compression THEN 2 ELSE 0>>))

get_pixel_width(q) == devicedependent.number_bytes_per_row[q.model] * 8

add_print(q, last_page) == Ok(Emit(q, IF last_page THEN <<26>> ELSE <<12>>))

\* variant: the length written is one more than the bytes of the row
raster_instruction_length_off(q, frames, r, i) ==
    LET row_instruction(row) ==
            IF q.model \in {"PT-P750W", "PT-P900W"}
            THEN <<71, (Len(row) + 1) % 256, Len(row) \div 256>> \o row
            ELSE (IF Len(frames) = 2 THEN <<119, i>> ELSE <<103, 0>>)
                 \o <<Len(row) + 1>> \o row
    IN  row_instruction(IF q.compression THEN packbits_encode(frames[i][r])
                        ELSE frames[i][r])

\* variant: the red plane is written on lane 1 and the black one on lane 2
raster_instruction_red_first(q, frames, r, i) ==
    LET row_instruction(row) ==
            IF q.model \in {"PT-P750W", "PT-P900W"}
            THEN <<71, Len(row) % 256, Len(row) \div 256>> \o row
            ELSE (IF Len(frames) = 2 THEN <<119, 3 - i>> ELSE <<103, 0>>)
                 \o <<Len(row)>> \o row
    IN  row_instruction(IF q.compression THEN packbits_encode(frames[i][r])
                        ELSE frames[i][r])

\* the bytes written for row r of frame i, row being the bytes of the row as
\* they are sent: self.model.startswith("PT") holds for the two P-touch
\* models of the catalog
raster_instruction(q, frames, r, i) ==
    LET row_instruction(row) ==
            IF q.model \in {"PT-P750W", "PT-P900W"}
            THEN <<71, Len(row) % 256, Len(row) \div 256>> \o row
            ELSE (IF Len(frames) = 2 THEN <<119, i>> ELSE <<103, 0>>)
                 \o <<Len(row)>> \o row
    IN  row_instruction(IF q.compression THEN packbits_encode(frames[i][r])
                        ELSE frames[i][r])

\* the instructions are appended one after the other, eight at a time while
\* eight are left; n is the length of the log before the first of them, so
\* that Len(q.log) - n of them are written
RECURSIVE EmitAll(_, _, _)
EmitAll(q, instructions, n) ==
    IF Len(q.log) - n >= Len(instructions) THEN q
    ELSE IF Len(q.log) - n + 8 <= Len(instructions)
    THEN EmitAll(Emit(Emit(Emit(Emit(Emit(Emit(Emit(Emit(q,
                     instructions[Len(q.log) - n + 1]), instructions[Len(q.log) - n + 2]),
                     instructions[Len(q.log) - n + 3]), instructions[Len(q.log) - n + 4]),
                     instructions[Len(q.log) - n + 5]), instructions[Len(q.log) - n + 6]),
                     instructions[Len(q.log) - n + 7]), instructions[Len(q.log) - n + 8]),
                 instructions, n)
    ELSE EmitAll(Emit(q, instructions[Len(q.log) - n + 1]), instructions, n)

\* add_raster_data(image, second_image): size is image.size, frames the one
\* or two bit planes, each a sequence of size[2] rows of size[1] // 8 bytes;
\* bytes([translen]) raises ValueError for a row of more than 255 bytes, and
\* the rows are appended to self.data when all of them are written; the rows
\* are those of raster_data, which is built once
add_raster_data(q, size, frames) ==
    LET emit_rows(instructions) ==
            IF /\ q.model \notin {"PT-P750W", "PT-P900W"}
               /\ \E k \in 1 .. Len(instructions) : instructions[k][3] > 255
            THEN [q |-> q, raised |-> "ValueError"]
            ELSE Ok(EmitAll(q, instructions, Len(q.log)))
    IN  IF size[1] # get_pixel_width(q)
        THEN [q |-> q, raised |-> "BrotherQLRasterError"]
        ELSE CHOOSE r \in
                 {emit_rows(raster_data) :
                     raster_data \in
                         {[k \in 1 .. size[2] * Len(frames) |->
                              raster_instruction(q, frames, ((k - 1) \div Len(frames)) + 1,
                                                 ((k - 1) % Len(frames)) + 1)]}} : TRUE

\* the content of bit plane i of the k-th image of a job: rows that differ
\* from image to image, from row to row and between the two planes
Plane(k, i, size) ==
    [r \in 1 .. size[2] |->
        SampleRow(<<"blank", "distinct", "pairs", "half">>[((k + r + i) % 4) + 1],
                  size[1] \div 8)]

\* variant: red is refused only when exception_on_warning is set
red_refused_if_strict(q, red) ==
    red /\ ~two_color_support(q) /\ q.exception_on_warning

\* if red and not self.two_color_support: raise BrotherQLUnsupportedCmd
red_refused(q, red) == red /\ ~two_color_support(q)

\* try: ... except BrotherQLUnsupportedCmd: pass
Try(r) == IF r.raised = "BrotherQLUnsupportedCmd" THEN Ok(r.q) ELSE r

\* label_specs = label_type_specs[label]
label_specs(job) == devicedependent.label_type_specs[job.label]

\* the size of the k-th image as it is handed to add_raster_data: an image
\* of the label's printable width and of job.images[k] rows (so that an
\* endless label needs no resizing and a die-cut label no rotation), pasted
\* on the device's width when it is narrower
image_size(q, job, k) ==
    IF label_specs(job).kind \notin {FormFactor.ENDLESS, FormFactor.PTOUCH_ENDLESS}
    THEN <<get_pixel_width(q), label_specs(job).dots_printable[2]>>
    ELSE IF label_specs(job).dots_printable[1] < get_pixel_width(q)
    THEN <<get_pixel_width(q), job.images[k]>>
    ELSE <<label_specs(job).dots_printable[1], job.images[k]>>

\* the body of "for image in images" for the k-th image; dither, rotate,
\* dpi_600 and hq have their default values.  Every step but the first takes
\* what the step before it answered
page(q, job, k) ==
    LET endless ==
            label_specs(job).kind \in {FormFactor.ENDLESS, FormFactor.PTOUCH_ENDLESS}
        \* qlr.mtype = ...; qlr.mwidth = ...; qlr.mlength = ...; qlr.pquality = hq
        set_media(p) ==
            [p EXCEPT !.mtype = <<CASE label_specs(job).kind = FormFactor.ENDLESS -> 10
                                    [] label_specs(job).kind = FormFactor.PTOUCH_ENDLESS -> 0
                                    [] OTHER -> 11>>,
                      !.mwidth = <<label_specs(job).tape_size[1] % 256>>,
                      !.mlength = <<IF endless THEN 0
                                    ELSE label_specs(job).tape_size[2] % 256>>,
                      !.pquality = TRUE]
        \* if cut: try: add_autocut(True); add_cut_every(1) except ...: pass
        cut_every_after(r) == IF r.raised # "" THEN r ELSE add_cut_every(r.q, 1)
        page_cut(p) == IF job.cut THEN Try(cut_every_after(add_autocut(p, TRUE))) ELSE Ok(p)
        \* qlr.dpi_600 = ...; qlr.cut_at_end = cut; qlr.two_color_printing = red
        set_expanded(p) ==
            [p EXCEPT !.dpi_600 = FALSE, !.cut_at_end = job.cut,
                      !.two_color_printing = job.red]
        \* if compress: try: add_compression(True) except ...: pass
        page_compression(p) ==
            IF job.compress THEN Try(add_compression(p, TRUE)) ELSE Ok(p)
        page_settings(r) ==
            IF r.raised # "" THEN r
            ELSE page_compression(
                     add_margins(Try(add_expanded_mode(set_expanded(page_cut(r.q).q))).q,
                                 label_specs(job).feed_margin).q)
        \* add_raster_data with the one or the two planes of the image
        page_raster(r) ==
            IF r.raised # "" THEN r
            ELSE add_raster_data(r.q, image_size(r.q, job, k),
                                 [i \in 1 .. (IF job.red THEN 2 ELSE 1) |->
                                     Plane(k, i, image_size(r.q, job, k))])
        page_print(r) == IF r.raised # "" THEN r ELSE add_print(r.q, TRUE)
    IN  IF ~endless /\ job.images[k] # label_specs(job).dots_printable[2]
        THEN [q |-> q, raised |-> "ValueError"]
        ELSE page_print(page_raster(page_settings(
                 add_media_and_quality(set_media(add_status_information(q).q),
                                       image_size(q, job, k)[2]))))

RECURSIVE pages(_, _, _)
pages(q, job, k) ==
    LET after(r) == IF r.raised # "" THEN r ELSE pages(r.q, job, k + 1)
    IN  IF k > Len(job.images) THEN Ok(q) ELSE after(page(q, job, k))

\* variant: the object is initialized before the buffer is invalidated
generate_instructions_init_first(q, job) ==
    IF job.label \notin DOMAIN devicedependent.label_type_specs
    THEN [q |-> q, raised |-> "KeyError"]
    ELSE IF red_refused(q, job.red)
    THEN [q |-> q, raised |-> "BrotherQLUnsupportedCmd"]
    ELSE pages(Try(add_switch_mode(
                   add_invalidate(add_initialize(Try(add_switch_mode(q)).q).q).q)).q,
               job, 1)

\* generate_instructions(images, label, cut=, compress=, red=)
generate_instructions(q, job) ==
    IF job.label \notin DOMAIN devicedependent.label_type_specs
    THEN [q |-> q, raised |-> "KeyError"]
    ELSE IF red_refused(q, job.red)
    THEN [q |-> q, raised |-> "BrotherQLUnsupportedCmd"]
    ELSE pages(Try(add_switch_mode(
                   add_initialize(add_invalidate(Try(add_switch_mode(q)).q).q).q)).q,
               job, 1)

\* jobs of up to MaxImages images of up to MaxRows rows each, on an endless
\* label, on the P-touch tape and on a die-cut label, and the job of one
\* image that has the size of the smallest round die-cut label
Jobs ==
    {[label |-> l, images |-> [k \in 1 .. n |-> h], red |-> r, compress |-> c,
      cut |-> u] :
        l \in {"62", "pt24", "62x29"}, n \in 1 .. MaxImages, h \in 1 .. MaxRows,
        r \in BOOLEAN, c \in BOOLEAN, u \in BOOLEAN}
    \cup {[label |-> "d12",
            images |-> <<devicedependent.label_type_specs["d12"].dots_printable[2]>>,
            red |-> FALSE, compress |-> FALSE, cut |-> FALSE]}

\* the add_* methods called on their own, with their argument (a flag as 0 or 1)
AddOps ==
    {<<"add_switch_mode", 0>>, <<"add_autocut", 0>>, <<"add_autocut", 1>>,
     <<"add_cut_every", 1>>, <<"add_expanded_mode", 0>>, <<"add_compression", 0>>,
     <<"add_compression", 1>>, <<"add_initialize", 0>>, <<"add_invalidate", 0>>,
     <<"add_status_information", 0>>, <<"add_margins", 35>>, <<"add_print", 0>>,
     <<"add_print", 1>>}

Call(q, op) ==
    CASE op[1] = "add_switch_mode" -> add_switch_mode(q)
      [] op[1] = "add_autocut" -> add_autocut(q, op[2] = 1)
      [] op[1] = "add_cut_every" -> add_cut_every(q, op[2])
      [] op[1] = "add_expanded_mode" -> add_expanded_mode(q)
      [] op[1] = "add_compression" -> add_compression(q, op[2] = 1)
      [] op[1] = "add_initialize" -> add_initialize(q)
      [] op[1] = "add_invalidate" -> add_invalidate(q)
      [] op[1] = "add_status_information" -> add_status_information(q)
      [] op[1] = "add_margins" -> add_margins(q, op[2])
      [] OTHER -> add_print(q, op[2] = 1)

\* last is history: the last call made on the object, the object before it
\* and the exception it raised
NoCall(q) ==
    [op |-> "__init__", arg |-> 0,
     job |-> [label |-> "", images |-> << >>, red |-> FALSE, compress |-> FALSE,
              cut |-> FALSE],
     before |-> q, raised |-> "", calls |-> 0]

RasterIdle ==
    /\ qlr = BrotherQLRaster("QL-500")
    /\ last = NoCall(BrotherQLRaster("QL-500"))
    /\ chunks = [raised |-> "pending", instructions |-> << >>]
    /\ stream = [data |-> << >>, raise_exception |-> FALSE,
                 join_preamble |-> FALSE, join_raster |-> FALSE,
                 merged |-> [raised |-> "pending", value |-> << >>]]
    /\ br = BrotherQLReader

\* qlr = BrotherQLRaster(model); qlr.exception_on_warning = True, or not
RasterInit ==
    /\ \E model \in devicedependent.models, eow \in BOOLEAN :
           qlr = [BrotherQLRaster(model) EXCEPT !.exception_on_warning = eow]
    /\ last = NoCall(qlr)
    /\ chunks = [raised |-> "pending", instructions |-> << >>]
    /\ stream = [data |-> << >>, raise_exception |-> FALSE,
                 join_preamble |-> FALSE, join_raster |-> FALSE,
                 merged |-> [raised |-> "pending", value |-> << >>]]
    /\ br = BrotherQLReader

\* qlr.add_...(...)
Add ==
    /\ last.op # "generate_instructions" /\ last.calls < MaxOps
    /\ chunks.raised = "pending"
    /\ \E op \in AddOps :
           \E r \in {Call(qlr, op)} :
               /\ qlr' = r.q
               /\ last' = [op |-> op[1], arg |-> op[2], job |-> NoCall(qlr).job, before |-> qlr,
                           raised |-> r.raised, calls |-> last.calls + 1]
    /\ UNCHANGED <<chunks, stream, br>>

\* qlr.generate_instructions(images, label, ...) on a new object
Generate ==
    /\ last.op = "__init__"
    /\ chunks.raised = "pending"
    /\ \E job \in Jobs :
           \E r \in {generate_instructions(qlr, job)} :
               /\ qlr' = r.q
               /\ last' = [op |-> "generate_instructions", arg |-> 0, job |-> job,
                           before |-> qlr, raised |-> r.raised,
                           calls |-> last.calls + 1]
    /\ UNCHANGED <<chunks, stream, br>>

\* list(chunker(qlr.data)): what analyse iterates over, for the data that
\* generate_instructions left in the object when it returned.  The data of an
\* encoder in strict mode are those of the one in lenient mode, and are read
\* once
Chunk ==
    /\ last.op = "generate_instructions" /\ last.raised = ""
    /\ ~qlr.exception_on_warning
    /\ chunks.raised = "pending"
    /\ chunks' = chunker(qlr.data, FALSE)
    /\ UNCHANGED <<qlr, last, stream, br>>

\* BrotherQLReader(file).analyse() on the file that holds the job; the files
\* read are those written for a model without compression and two colours,
\* for one with both and for a P-touch model
Analyse ==
    /\ last.op = "generate_instructions"
    /\ qlr.model \in {"QL-500", "QL-810W", "PT-P750W"}
    /\ ~qlr.exception_on_warning
    /\ chunks.raised = ""
    /\ br.raised = "pending"
    /\ br' = Loop("analyse", chunks.instructions,
                   [reader |-> [br EXCEPT !.raised = ""], i |-> 1]).reader
    /\ UNCHANGED <<qlr, last, chunks, stream>>

\* variant: the two images are not compared
add_raster_images_unchecked(q, size, second_size) ==
    add_raster_data(q, size,
                    [i \in 1 .. (IF second_size = << >> THEN 1 ELSE 2) |->
                        Plane(1, i, size)])

\* add_raster_data(image, second_image) for an image of the size size and a
\* second image of the size second_size, << >> when there is none: the
\* checks made before the planes are read
add_raster_images(q, size, second_size) ==
    IF size[1] # get_pixel_width(q)
    THEN [q |-> q, raised |-> "BrotherQLRasterError"]
    ELSE IF second_size # << >> /\ second_size # size
    THEN [q |-> q, raised |-> "BrotherQLRasterError"]
    ELSE add_raster_data(q, size,
                         [i \in 1 .. (IF second_size = << >> THEN 1 ELSE 2) |->
                             Plane(1, i, size)])

\* an encoder object on which calls are made one after the other: an add_*
\* method
AppendAdd ==
    /\ last.calls < MaxCalls
    /\ \E op \in {o \in AddOps : o[1] \in {"add_switch_mode", "add_compression",
                                            "add_initialize", "add_margins",
                                            "add_print"}} :
           \E r \in {Call(qlr, op)} :
               /\ qlr' = r.q
               /\ last' = [op |-> op[1], arg |-> op[2], job |-> NoCall(qlr).job,
                           before |-> qlr, raised |-> r.raised,
                           calls |-> last.calls + 1]
    /\ UNCHANGED <<chunks, stream, br>>

\* generate_instructions with one image of one row on the object as it is
AppendGenerate ==
    /\ last.calls < MaxCalls
    /\ \E job \in {j \in Jobs : j.label = "62" /\ j.images = <<1>> /\ ~j.cut} :
           \E r \in {generate_instructions(qlr, job)} :
               /\ qlr' = r.q
               /\ last' = [op |-> "generate_instructions", arg |-> 0, job |-> job,
                           before |-> qlr, raised |-> r.raised,
                           calls |-> last.calls + 1]
    /\ UNCHANGED <<chunks, stream, br>>

\* add_raster_data with an image of the device's width or one byte narrower
\* and of one row, alone or with a second image of one or of two rows; arg is
\* the width of the image, job.images the rows of the second one
AppendRaster ==
    /\ last.calls < MaxCalls
    /\ \E narrower \in {0, 8}, second \in {0, 1, 2} :
           \E r \in {add_raster_images(
                         qlr, <<get_pixel_width(qlr) - narrower, 1>>,
                         IF second = 0 THEN << >>
                         ELSE <<get_pixel_width(qlr) - narrower, second>>)} :
               /\ qlr' = r.q
               /\ last' = [op |-> "add_raster_data",
                           arg |-> get_pixel_width(qlr) - narrower,
                           job |-> [NoCall(qlr).job EXCEPT
                                       !.images = IF second = 0 THEN << >>
                                                  ELSE <<second>>],
                           before |-> qlr, raised |-> r.raised,
                           calls |-> last.calls + 1]
    /\ UNCHANGED <<chunks, stream, br>>

(***************************************************************************)
(* Specifications                                                          *)
(***************************************************************************)
Init == SendInit /\ ParseIdle /\ BackendIdle /\ CatalogIdle /\ CodecIdle /\ RasterIdle

Next ==
    \/ SendBegin /\ UNCHANGED <<parseVars, backendVars, catalogVars, codecVars, rasterVars>>
    \/ WriteOk /\ UNCHANGED <<parseVars, backendVars, catalogVars, codecVars, rasterVars>>
    \/ WriteFail /\ UNCHANGED <<parseVars, backendVars, catalogVars, codecVars, rasterVars>>
    \/ Poll /\ UNCHANGED <<parseVars, backendVars, catalogVars, codecVars, rasterVars>>
    \/ ReadFail /\ UNCHANGED <<parseVars, backendVars, catalogVars, codecVars, rasterVars>>
    \/ LoopExit /\ UNCHANGED <<parseVars, backendVars, catalogVars, codecVars, rasterVars>>

Spec == Init /\ [][Next]_vars

InitParse == SendInit /\ ParseInit /\ BackendIdle /\ CatalogIdle /\ CodecIdle /\ RasterIdle

NextParse == Parse /\ UNCHANGED <<sendVars, backendVars, catalogVars, codecVars, rasterVars>>

SpecParse == InitParse /\ [][NextParse]_vars

InitBackend == SendInit /\ ParseIdle /\ BackendInit /\ CatalogIdle /\ CodecIdle /\ RasterIdle

NextBackend ==
    \/ Construct /\ UNCHANGED <<sendVars, parseVars, catalogVars, codecVars, rasterVars>>
    \/ Dispose /\ UNCHANGED <<sendVars, parseVars, catalogVars, codecVars, rasterVars>>
    \/ Del /\ UNCHANGED <<sendVars, parseVars, catalogVars, codecVars, rasterVars>>
    \/ FdReuse /\ UNCHANGED <<sendVars, parseVars, catalogVars, codecVars, rasterVars>>

SpecBackend == InitBackend /\ [][NextBackend]_vars

InitRead ==
    /\ SendInit /\ ParseIdle /\ CatalogIdle /\ CodecIdle /\ RasterIdle
    /\ backend \in Backends
    /\ life = "constructed"
    /\ attrs = {}
    /\ dev_none = FALSE
    /\ handle = "open"
    /\ was = FALSE
    /\ driver = "none"
    /\ releases = 0
    /\ foreign = 0
    /\ calls = 0
    /\ raises_ = 0
    /\ \E strategy \in RetryStrategy :
           rd = [pc |-> "idle", strategy |-> strategy, data |-> << >>, elapsed |-> 0,
                 reads |-> << >>, ret |-> << >>, exc |-> ""]

NextRead ==
    \/ Read /\ UNCHANGED <<sendVars, parseVars, catalogVars, codecVars, rasterVars>>
    \/ Select /\ UNCHANGED <<sendVars, parseVars, catalogVars, codecVars, rasterVars>>
    \/ Return /\ UNCHANGED <<sendVars, parseVars, catalogVars, codecVars, rasterVars>>

SpecRead == InitRead /\ [][NextRead]_vars

InitCatalog == SendInit /\ ParseIdle /\ BackendIdle /\ CatalogInit /\ CodecIdle /\ RasterIdle

NextCatalog ==
    \/ FromIdentifier /\ UNCHANGED <<sendVars, parseVars, backendVars, codecVars, rasterVars>>
    \/ WorksWithModel /\ UNCHANGED <<sendVars, parseVars, backendVars, codecVars, rasterVars>>
    \/ Threshold /\ UNCHANGED <<sendVars, parseVars, backendVars, codecVars, rasterVars>>

SpecCatalog == InitCatalog /\ [][NextCatalog]_vars

InitCodec == SendInit /\ ParseIdle /\ BackendIdle /\ CatalogIdle /\ CodecInit /\ RasterIdle

NextCodec ==
    \/ Compress /\ UNCHANGED <<sendVars, parseVars, backendVars, catalogVars, rasterVars>>
    \/ Decompress /\ UNCHANGED <<sendVars, parseVars, backendVars, catalogVars, rasterVars>>

SpecCodec == InitCodec /\ [][NextCodec]_vars

InitRaster ==
    SendInit /\ ParseIdle /\ BackendIdle /\ CatalogIdle /\ CodecIdle /\ RasterInit

NextRaster ==
    \/ Add /\ UNCHANGED <<sendVars, parseVars, backendVars, catalogVars, codecVars>>
    \/ Generate /\ UNCHANGED <<sendVars, parseVars, backendVars, catalogVars, codecVars>>
    \/ Chunk /\ UNCHANGED <<sendVars, parseVars, backendVars, catalogVars, codecVars>>
    \/ Analyse /\ UNCHANGED <<sendVars, parseVars, backendVars, catalogVars, codecVars>>

SpecRaster == InitRaster /\ [][NextRaster]_vars

\* a model without any gated capability and a model with all of them
InitAppend ==
    /\ SendInit /\ ParseIdle /\ BackendIdle /\ CatalogIdle /\ CodecIdle
    /\ \E model \in {"QL-500", "QL-810W"}, eow \in BOOLEAN :
           qlr = [BrotherQLRaster(model) EXCEPT !.exception_on_warning = eow]
    /\ last = NoCall(qlr)
    /\ chunks = [raised |-> "pending", instructions |-> << >>]
    /\ stream = [data |-> << >>, raise_exception |-> FALSE,
                 join_preamble |-> FALSE, join_raster |-> FALSE,
                 merged |-> [raised |-> "pending", value |-> << >>]]
    /\ br = BrotherQLReader

NextAppend ==
    \/ AppendAdd /\ UNCHANGED <<sendVars, parseVars, backendVars, catalogVars, codecVars>>
    \/ AppendGenerate
           /\ UNCHANGED <<sendVars, parseVars, backendVars, catalogVars, codecVars>>
    \/ AppendRaster
           /\ UNCHANGED <<sendVars, parseVars, backendVars, catalogVars, codecVars>>

SpecAppend == InitAppend /\ [][NextAppend]_vars

(***************************************************************************)
(* reader.py: chunker and merge_specific_instructions on a byte buffer;    *)
(* control/op_codes.py: the second opcode table                            *)
(***************************************************************************)
\* control/op_codes.py OPCODES, without the descriptions
op_codes_OPCODES == <<
    [signature |-> <<0>>, name |-> "preamble", following_bytes |-> -1],
    [signature |-> <<77>>, name |-> "compression", following_bytes |-> 1],
    [signature |-> <<103>>, name |-> "raster QL", following_bytes |-> -1],
    [signature |-> <<71>>, name |-> "raster P-touch", following_bytes |-> -1],
    [signature |-> <<119>>, name |-> "2-color raster QL", following_bytes |-> -1],
    [signature |-> <<90>>, name |-> "zero raster", following_bytes |-> 0],
    [signature |-> <<12>>, name |-> "print", following_bytes |-> 0],
    [signature |-> <<26>>, name |-> "print", following_bytes |-> 0],
    [signature |-> <<27, 64>>, name |-> "init", following_bytes |-> 0],
    [signature |-> <<27, 105, 97>>, name |-> "mode setting", following_bytes |-> 1],
    [signature |-> <<27, 105, 33>>, name |-> "automatic status", following_bytes |-> 1],
    [signature |-> <<27, 105, 122>>, name |-> "media/quality", following_bytes |-> 10],
    [signature |-> <<27, 105, 77>>, name |-> "various", following_bytes |-> 1],
    [signature |-> <<27, 105, 65>>, name |-> "cut-every", following_bytes |-> 1],
    [signature |-> <<27, 105, 75>>, name |-> "expanded", following_bytes |-> 1],
    [signature |-> <<27, 105, 100>>, name |-> "margins", following_bytes |-> 2],
    [signature |-> <<27, 105, 85, 119, 1>>, name |-> "amedia", following_bytes |-> 127],
    [signature |-> <<27, 105, 85, 74>>, name |-> "jobid", following_bytes |-> 14],
    [signature |-> <<27, 105, 88, 71>>, name |-> "request_config", following_bytes |-> 0],
    [signature |-> <<27, 105, 83>>, name |-> "status request", following_bytes |-> 0],
    [signature |-> <<128, 32, 66>>, name |-> "status response", following_bytes |-> 29]
    >>

\* variant: the buffer is not appended when the loop is over
merge_specific_instructions_no_flush(instructions, join_preamble, join_raster) ==
    LET name(instruction) == OPCODES[match_opcode(instruction, 1)][2]
        raster(n) == n \in {"raster QL", "raster P-touch", "2-color raster QL",
                            "zero raster"}
        flushed(m) == IF m.instruction_buffer # << >>
                      THEN Append(m.new_instructions, m.instruction_buffer)
                      ELSE m.new_instructions
        RECURSIVE merge(_, _)
        merge(i, m) ==
            IF i > Len(instructions)
            THEN [raised |-> "", value |-> m.new_instructions]
            ELSE IF match_opcode(instructions[i], 1) = 0
            THEN [raised |-> "AssertionError", value |-> << >>]
            ELSE IF /\ join_preamble /\ name(instructions[i]) = "preamble"
                    /\ m.last_opcode = "preamble"
            THEN merge(i + 1, [m EXCEPT !.instruction_buffer = @ \o instructions[i],
                                        !.last_opcode = name(instructions[i])])
            ELSE IF join_raster /\ raster(name(instructions[i]))
                    /\ m.last_opcode = "None"
            THEN [raised |-> "TypeError", value |-> << >>]
            ELSE IF join_raster /\ raster(name(instructions[i]))
                    /\ raster(m.last_opcode)
            THEN merge(i + 1, [m EXCEPT !.instruction_buffer = @ \o instructions[i],
                                        !.last_opcode = name(instructions[i])])
            ELSE merge(i + 1, [new_instructions |-> flushed(m),
                               instruction_buffer |-> instructions[i],
                               last_opcode |-> name(instructions[i])])
    IN  merge(1, [new_instructions |-> << >>, instruction_buffer |-> << >>,
                  last_opcode |-> "None"])

\* merge_specific_instructions(instructions, join_preamble, join_raster): the
\* list returned, or the exception raised.  name is OPCODES[opcode][0],
\* raster(n) is "raster" in n, merge the for loop from the i-th instruction
\* on; "raster" in None is a TypeError
merge_specific_instructions(instructions, join_preamble, join_raster) ==
    LET name(instruction) == OPCODES[match_opcode(instruction, 1)][2]
        raster(n) == n \in {"raster QL", "raster P-touch", "2-color raster QL",
                            "zero raster"}
        flushed(m) == IF m.instruction_buffer # << >>
                      THEN Append(m.new_instructions, m.instruction_buffer)
                      ELSE m.new_instructions
        RECURSIVE merge(_, _)
        merge(i, m) ==
            IF i > Len(instructions)
            THEN [raised |-> "", value |-> flushed(m)]
            ELSE IF match_opcode(instructions[i], 1) = 0
            THEN [raised |-> "AssertionError", value |-> << >>]
            ELSE IF /\ join_preamble /\ name(instructions[i]) = "preamble"
                    /\ m.last_opcode = "preamble"
            THEN merge(i + 1, [m EXCEPT !.instruction_buffer = @ \o instructions[i],
                                        !.last_opcode = name(instructions[i])])
            ELSE IF join_raster /\ raster(name(instructions[i]))
                    /\ m.last_opcode = "None"
            THEN [raised |-> "TypeError", value |-> << >>]
            ELSE IF join_raster /\ raster(name(instructions[i]))
                    /\ raster(m.last_opcode)
            THEN merge(i + 1, [m EXCEPT !.instruction_buffer = @ \o instructions[i],
                                        !.last_opcode = name(instructions[i])])
            ELSE merge(i + 1, [new_instructions |-> flushed(m),
                               instruction_buffer |-> instructions[i],
                               last_opcode |-> name(instructions[i])])
    IN  merge(1, [new_instructions |-> << >>, instruction_buffer |-> << >>,
                  last_opcode |-> "None"])

\* list(chunker(data, raise_exception))
ChunkStream ==
    /\ chunks.raised = "pending"
    /\ chunks' = chunker(stream.data, stream.raise_exception)
    /\ UNCHANGED <<qlr, last, stream, br>>

\* merge_specific_instructions on the list that chunker yielded
Merge ==
    /\ chunks.raised = ""
    /\ stream.merged.raised = "pending"
    /\ \E join_preamble \in BOOLEAN, join_raster \in BOOLEAN :
           stream' = [stream EXCEPT
                         !.join_preamble = join_preamble,
                         !.join_raster = join_raster,
                         !.merged = merge_specific_instructions(
                                        chunks.instructions, join_preamble,
                                        join_raster)]
    /\ UNCHANGED <<qlr, last, chunks, br>>

\* the buffers handed to chunker: every byte string of up to MaxStreamLen
\* bytes over five byte values (the preamble byte, the first byte of init,
\* its second byte, the raster QL opcode and a byte that is no opcode), and
\* every part of a job of two preamble bytes, init, media/quality,
\* compression, a black and a red row, a one-colour row, an empty row, a
\* P-touch row, margins and the two print opcodes
InitReader ==
    /\ SendInit /\ ParseIdle /\ BackendIdle /\ CatalogIdle /\ CodecIdle
    /\ qlr = BrotherQLRaster("QL-500")
    /\ last = NoCall(BrotherQLRaster("QL-500"))
    /\ chunks = [raised |-> "pending", instructions |-> << >>]
    /\ br = BrotherQLReader
    /\ LET job == <<0, 0, 27, 64, 27, 105, 122, 134, 10, 62, 0, 2, 0, 0, 0, 0, 0,
                    77, 2, 119, 1, 1, 9, 119, 2, 2, 0, 8, 103, 0, 1, 5, 90,
                    71, 2, 0, 5, 6, 27, 105, 100, 35, 0, 12, 26>>
       IN  \E d \in UNION {[1 .. n -> {0, 1, 27, 64, 103}] : n \in 0 .. MaxStreamLen}
                    \cup {SubSeq(job, i, j) : i \in 1 .. Len(job), j \in 1 .. Len(job)},
              raise_exception \in BOOLEAN :
              stream = [data |-> d, raise_exception |-> raise_exception,
                        join_preamble |-> FALSE, join_raster |-> FALSE,
                        merged |-> [raised |-> "pending", value |-> << >>]]

NextReader ==
    \/ ChunkStream
          /\ UNCHANGED <<sendVars, parseVars, backendVars, catalogVars, codecVars>>
    \/ Merge /\ UNCHANGED <<sendVars, parseVars, backendVars, catalogVars, codecVars>>

SpecReader == InitReader /\ [][NextReader]_vars

(***************************************************************************)
(* Claims about send()                                                     *)
(***************************************************************************)
Last(t) == t[Len(t)]
HasTag(t, tag) == \E i \in 1 .. Len(t) : t[i] = tag
AllEmpty(t) == \A i \in 1 .. Len(t) : t[i] = "empty"

\* a step of send() in which self.read() returned: data' is what it returned
ReadReturned == Len(trace') = Len(trace) + 1 /\ Last(trace') # "ioerror"

\* self.write() raised: send() was left before any read
WriteFailed == pc = "raised" /\ trace = << >>

\* C1: a blocking send() all of whose reads return empty bytes does not raise,
\* and once the deadline has passed it has returned, or returns at its next
\* step, with outcome SENT, did_print = false and ready_for_next_job = false.
C1_SilentDeviceReturnsSent ==
    (blocking /\ pc \notin {"idle", "write"} /\ ~WriteFailed /\ AllEmpty(trace))
    => /\ pc \in {"polling", "returned"}
       /\ exc = ""
       /\ status.outcome = "SENT"
       /\ ~status.did_print
       /\ ~status.ready_for_next_job
       /\ (pc = "polling" /\ elapsed >= Deadline => ENABLED LoopExit /\ ~ENABLED Poll)

C1_Witness ==
    /\ pc = "returned" /\ blocking /\ Len(trace) >= 2 /\ AllEmpty(trace)
    /\ elapsed >= Deadline
    /\ status.outcome = "SENT" /\ ~status.did_print /\ ~status.ready_for_next_job

\* C2: in a blocking send(), a non-empty read that is no status frame (fewer
\* than 32 bytes, or a wrong header) does not end the send: the loop goes on
\* and the outcome and both flags are what they were.
C2_MalformedReadAbsorbed ==
    [][(ReadReturned /\ Last(trace') \in {"short", "badheader"})
        => /\ pc' = "polling"
           /\ exc' = ""
           /\ status'.outcome = status.outcome
           /\ status'.did_print = status.did_print
           /\ status'.ready_for_next_job = status.ready_for_next_job]_vars

\* C3: a well-formed status frame with any bit of error information 1 or 2
\* set, read by a blocking send(), sets outcome ERROR, leaves did_print and
\* ready_for_next_job as they were and ends the send without a further read.
C3_ErrorFrameEndsSend ==
    [][(ReadReturned /\ Last(trace') = "error")
        => /\ status'.outcome = "ERROR"
           /\ status'.did_print = status.did_print
           /\ status'.ready_for_next_job = status.ready_for_next_job
           /\ pc' = "returned"]_vars

\* C4: when a printing-completed frame and a (phase-change, waiting-to-receive)
\* frame have both been read, in either order, and no error frame has, the
\* send has returned on the read of the second of the two, with did_print,
\* ready_for_next_job and outcome PRINTED.
C4_BothFramesEitherOrder ==
    (HasTag(trace, "completed") /\ HasTag(trace, "ready") /\ ~HasTag(trace, "error"))
    => /\ pc = "returned"
       /\ status.did_print
       /\ status.ready_for_next_job
       /\ status.outcome = "PRINTED"
       /\ Last(trace) \in {"completed", "ready"}
       /\ LET front == SubSeq(trace, 1, Len(trace) - 1)
          IN  ~(HasTag(front, "completed") /\ HasTag(front, "ready"))

C4_Witness ==
    /\ pc = "returned"
    /\ trace = <<"ready", "empty", "completed">>
    /\ status.outcome = "PRINTED"

\* C5, as claimed: the outcome of a send() changes only by NotSent -> Sent,
\* Sent -> Printed and Sent -> Errored.
C5_OnlyThreeTransitions ==
    [][status'.outcome # status.outcome
        => <<status.outcome, status'.outcome>> \in
            {<<"UNKNOWN", "SENT">>, <<"SENT", "PRINTED">>, <<"SENT", "ERROR">>}]_vars

\* C5, amended: the outcome of a send() changes only by NotSent -> Sent,
\* Sent -> Printed, Sent -> Errored and Printed -> Errored; it never moves back
\* to Sent or NotSent and never leaves Errored.
C5_TransitionsWithPrintedToErrored ==
    [][status'.outcome # status.outcome
        => <<status.outcome, status'.outcome>> \in
            {<<"UNKNOWN", "SENT">>, <<"SENT", "PRINTED">>, <<"SENT", "ERROR">>,
             <<"PRINTED", "ERROR">>}]_vars

C5_Witness ==
    /\ pc = "returned"
    /\ trace = <<"completed", "error">>
    /\ status.outcome = "ERROR"
    /\ status.did_print

\* C6: send() with blocking = false makes no read and does not enter the
\* polling loop; the step in which its write returns is the step in which it
\* returns, with outcome SENT, did_print = false, ready_for_next_job = false.
C6_NonBlockingReturnsAfterWrite ==
    /\ [](~blocking => /\ trace = << >>
                       /\ pc # "polling"
                       /\ writes <= 1
                       /\ (pc = "returned" => /\ writes = 1
                                              /\ status.outcome = "SENT"
                                              /\ ~status.did_print
                                              /\ ~status.ready_for_next_job))
    /\ [][(~blocking /\ pc = "write" /\ writes' = writes + 1 /\ exc' = "")
            => pc' = "returned"]_vars

C6_Witness ==
    /\ ~blocking /\ pc = "returned" /\ writes = 1 /\ trace = << >>
    /\ status.outcome = "SENT"

\* C10: the frame 80 20 42 followed by 29 zero bytes, read by a blocking
\* send(), is parsed to status type REPLY_TO_STATUS_REQUEST, phase type
\* WAITING_TO_RECEIVE and no errors, and changes neither the outcome nor
\* either flag.
C10_ZeroFrame ==
    [][(ReadReturned /\ data' = Header \o [i \in 1 .. 29 |-> 0])
        => /\ status'.printer_state.status_type.member
           /\ status'.printer_state.status_type.name = "REPLY_TO_STATUS_REQUEST"
           /\ status'.printer_state.phase_type.member
           /\ status'.printer_state.phase_type.name = "WAITING_TO_RECEIVE"
           /\ status'.printer_state.errors = << >>
           /\ status'.outcome = status.outcome
           /\ status'.did_print = status.did_print
           /\ status'.ready_for_next_job = status.ready_for_next_job
           /\ pc' = "polling"]_vars

C10_Witness ==
    /\ data = Header \o [i \in 1 .. 29 |-> 0]
    /\ trace = <<"completed", "other">>
    /\ pc = "polling"
    /\ status.printer_state.status_type.name = "REPLY_TO_STATUS_REQUEST"
    /\ status.outcome = "PRINTED"
    /\ ~status.ready_for_next_job

(***************************************************************************)
(* Claims about from_bytes                                                 *)
(***************************************************************************)
Bit(byte, b) == (byte \div 2^b) % 2 = 1
PopCount(byte) == Cardinality({b \in 0 .. 7 : Bit(byte, b)})
Parsed == result.raised = ""
Names(seq) == {seq[i] : i \in 1 .. Len(seq)}

\* C8: for every pair of error bitmap bytes of a well-formed frame, errors
\* holds the name of every set bit of both bitmaps, one name per set bit.
C8_AllSetBitsReported ==
    Parsed =>
        /\ Len(result.value.errors) = PopCount(input[9]) + PopCount(input[10])
        /\ \A b \in 0 .. 7 :
            /\ Bit(input[9], b) => RespErrorInformation1[b + 1] \in Names(result.value.errors)
            /\ Bit(input[10], b) => RespErrorInformation2[b + 1] \in Names(result.value.errors)

\* C9, as claimed: error information 1 = 0x01 with error information 2 = 0x00
\* parses to exactly END_OF_MEDIA.
C9_Byte01IsEndOfMedia ==
    (Parsed /\ input[9] = 1 /\ input[10] = 0)
    => result.value.errors = <<"END_OF_MEDIA">>

\* C9, amended: END_OF_MEDIA is bit 1 of error information 1: the frame with
\* error information 1 = 0x02 and error information 2 = 0x00 parses to exactly
\* END_OF_MEDIA, and the frame with 0x01 and 0x00 does not report END_OF_MEDIA.
C9_Byte02IsEndOfMedia ==
    /\ (Parsed /\ input[9] = 2 /\ input[10] = 0)
        => result.value.errors = <<"END_OF_MEDIA">>
    /\ (Parsed /\ input[9] = 1 /\ input[10] = 0)
        => "END_OF_MEDIA" \notin Names(result.value.errors)

C9_Witness ==
    /\ Parsed /\ input[9] = 2 /\ input[10] = 0
    /\ result.value.errors = <<"END_OF_MEDIA">>

(***************************************************************************)
(* Claims about dispose                                                    *)
(***************************************************************************)
\* C7: dispose() may be invoked any number of times, also on an object whose
\* constructor failed: no invocation raises, the handle the object acquired is
\* released at most once, exactly once when the object is gone, and no other
\* handle is closed.
C7_DisposeIdempotent ==
    /\ raises_ = 0
    /\ releases <= 1
    /\ foreign = 0
    /\ (life = "deleted" /\ handle # "none" => releases = 1)

\* a step of send() in which self.write() raised: the call was made and the
\* assignment status.outcome = SENT after it was not reached
WriteRaised == writes' = writes + 1 /\ status'.outcome # "SENT"

\* a step of send() in which self.read() raised
ReadRaised == Len(trace') = Len(trace) + 1 /\ Last(trace') = "ioerror"

\* C20: when self.write(), or a self.read() of the polling loop, raises a
\* transport error, send() is left with that error, and once it is left that
\* way it calls neither read nor write again; a failed write is followed by
\* no read.
C20_TransportErrorPropagates ==
    [][ /\ (WriteRaised \/ ReadRaised) =>
               (pc' = "raised" /\ exc' = "TransportError")
        /\ (pc = "raised" /\ exc = "TransportError") =>
               (writes' = writes /\ trace' = trace)
        /\ WriteRaised => trace' = << >> ]_vars

\* a read raised after an earlier read of the same send() had returned
C20_Witness ==
    /\ pc = "raised" /\ exc = "TransportError"
    /\ Len(trace) >= 2 /\ Last(trace) = "ioerror"
    /\ writes = 1

(***************************************************************************)
(* Claims about from_bytes: framing and unknown enum values                *)
(***************************************************************************)
\* the input starts with 80 20 42, read off the bytes themselves
HasHeader(d) == Len(d) >= 3 /\ d[1] = 128 /\ d[2] = 32 /\ d[3] = 66

\* field f of the response carries raw byte b: the enum member of value b
\* when b is one of the known values, the bare int b otherwise
Carries(f, b, known) == f.value = b /\ (f.member <=> b \in known)

\* C11: from_bytes raises exactly when the input has fewer than 32 bytes or
\* does not start with 80 20 42, the length being tested first; on every
\* other input it returns, and the media, status and phase type fields carry
\* the raw byte when it is none of the known enum values.
C11_FailsExactlyOnShortOrBadHeader ==
    result # Pending =>
        /\ result.raised # "" <=> (Len(input) < 32 \/ ~HasHeader(input))
        /\ Len(input) < 32 =>
               result.why = "Insufficient amount of data received"
        /\ result.raised = "" =>
               /\ Carries(result.value.media_type, input[12], {0, 10, 11})
               /\ Carries(result.value.status_type, input[19], {0, 1, 2, 5, 6})
               /\ Carries(result.value.phase_type, input[20], {0, 1})

\* a frame of 32 bytes with the header and a status type byte of no enum
\* member was interpreted
C11_Witness ==
    /\ Len(input) = 32 /\ HasHeader(input) /\ input[19] = 255
    /\ result.raised = "" /\ ~result.value.status_type.member

(***************************************************************************)
(* Claims about the catalogs and the threshold conversion                  *)
(***************************************************************************)
Answered(op) == query.op = op /\ answer.raised # "pending"

\* the members of Models a label lists in restricted_to_models
Listed(l) ==
    {Labels[l].restricted_to_models[i] : i \in 1 .. Len(Labels[l].restricted_to_models)}

C18_SeventyIsNinety ==
    (Answered("threshold") /\ query.threshold = 70) =>
        (answer.raised = "" /\ answer.value \in 89 .. 91)

\* C18: the threshold percentage 70 is converted to the level 76, the
\* integer part of (100 - 70) / 100 * 255 = 76.5; every percentage is
\* converted to the integer part of (100 - percentage) / 100 * 255, held
\* within 0 .. 255.
C18_SeventyIsSeventySix ==
    Answered("threshold") =>
        /\ answer.raised = ""
        /\ query.threshold = 70 => answer.value = 76
        /\ answer.value \in 0 .. 255
        /\ query.threshold \in 0 .. 100 =>
               /\ answer.value * 100 <= (100 - query.threshold) * 255
               /\ (100 - query.threshold) * 255 < (answer.value + 1) * 100
        /\ query.threshold >= 100 => answer.value = 0
        /\ query.threshold <= 0 => answer.value = 255

\* the percentage 70 was converted
C18_Witness ==
    Answered("threshold") /\ query.threshold = 70 /\ answer.value = 76

\* C19: Models.from_identifier returns the record of the model whose
\* identifier it is given, for every model of the catalog, and raises
\* BrotherQLUnknownModel for an identifier of no model of the catalog.
C19_FromIdentifierFindsEveryModel ==
    Answered("from_identifier") =>
        IF query.identifier \in identifiers
        THEN answer.raised = "" /\ answer.value.identifier = query.identifier
        ELSE answer.raised = "BrotherQLUnknownModel"

(***************************************************************************)
(* Claims about the row compression                                        *)
(***************************************************************************)
\* C13: for every raster row, the decompression loop of the reader applied
\* to the PackBits-compressed row returns the row, byte for byte; this holds
\* for a blank row and for a row of pairwise distinct bytes.
C13_DecompressInvertsCompress ==
    codec.stage = "unpacked" =>
        codec.unpacked.raised = "" /\ codec.unpacked.row = codec.row

\* a row of 162 pairwise distinct bytes, longer than one literal run can
\* be, came back from the decompression
C13_Witness ==
    /\ codec.stage = "unpacked"
    /\ Len(codec.row) = 162
    /\ \A i, j \in 1 .. Len(codec.row) : i # j => codec.row[i] # codec.row[j]
    /\ Len(codec.packed) = 164
    /\ codec.unpacked.row = codec.row

\* the capability table an encoder operation consults
Capability(op) ==
    CASE op = "add_switch_mode" -> devicedependent.modesetting
      [] op \in {"add_autocut", "add_cut_every"} -> devicedependent.cuttingsupport
      [] op = "add_expanded_mode" -> devicedependent.expandedmode
      [] op = "add_compression" -> devicedependent.compressionsupport
      [] OTHER -> devicedependent.models

\* the last call was a capability-gated operation on a model lacking the capability
GatedCallUnsupported ==
    /\ last.op \in {"add_switch_mode", "add_autocut", "add_cut_every",
                    "add_expanded_mode", "add_compression"}
    /\ last.before.model \notin Capability(last.op)

\* C15: a capability-gated operation called on a model lacking the
\* capability leaves the buffer unchanged; with exception_on_warning false
\* it returns and leaves the compression state unchanged, with
\* exception_on_warning true it raises BrotherQLUnsupportedCmd
C15_GatedCallLeavesBuffer ==
    GatedCallUnsupported =>
        /\ qlr.data = last.before.data
        /\ IF last.before.exception_on_warning
           THEN last.raised = "BrotherQLUnsupportedCmd"
           ELSE last.raised = "" /\ qlr.compression = last.before.compression

C15_Witness ==
    /\ GatedCallUnsupported
    /\ last.op = "add_compression" /\ last.arg = 1
    /\ last.before.exception_on_warning
    /\ last.raised = "BrotherQLUnsupportedCmd"
    /\ ~qlr.compression

\* generate_instructions was called with red on a model without two colours
RedUnsupported ==
    /\ last.op = "generate_instructions"
    /\ last.job.red
    /\ last.before.model \notin devicedependent.two_color_support

\* C16: generate_instructions with red on a model without two-colour
\* support raises in strict and in lenient mode, and the encoder is after
\* the call as it was before it
C16_RedRefusedBeforeAnyByte ==
    RedUnsupported =>
        /\ last.raised = "BrotherQLUnsupportedCmd"
        /\ qlr = last.before

C16_Witness ==
    /\ RedUnsupported
    /\ ~last.before.exception_on_warning
    /\ last.raised = "BrotherQLUnsupportedCmd"
    /\ qlr.data = << >>

\* generate_instructions was called with compress on a model without compression
CompressUnsupported ==
    /\ last.op = "generate_instructions"
    /\ last.job.compress
    /\ last.before.model \notin devicedependent.compressionsupport

\* the rows written for the job are the planes' rows as they are
RowsUncompressed ==
    \A e \in 1 .. Len(qlr.log) :
        qlr.log[e][1] \in {103, 119} =>
            /\ Len(qlr.log[e]) = 3 + get_pixel_width(qlr) \div 8
            /\ qlr.log[e][3] = get_pixel_width(qlr) \div 8

\* C14: with compress on a model without compression support, a lenient
\* encoder returns a buffer without a compression opcode and with
\* uncompressed rows, and a strict encoder fails with BrotherQLUnsupportedCmd
C14_StrictCompressFails ==
    CompressUnsupported =>
        IF last.before.exception_on_warning
        THEN last.raised = "BrotherQLUnsupportedCmd"
        ELSE last.raised = "" =>
                 /\ \A e \in 1 .. Len(qlr.log) : qlr.log[e][1] # 77
                 /\ RowsUncompressed

\* the instructions chunker yields for what the encoder appended: the zero
\* bytes of add_invalidate one by one, every other instruction as it is
AsChunkedAt(log, e) ==
    IF e > Len(log) THEN << >>
    ELSE IF \A k \in 1 .. Len(log[e]) : log[e][k] = 0
    THEN [k \in 1 .. Len(log[e]) |-> <<0>>]
    ELSE <<log[e]>>

\* the log is read eight entries at a time
RECURSIVE AsChunked(_, _)
AsChunked(log, e) ==
    IF e > Len(log) THEN << >>
    ELSE AsChunkedAt(log, e) \o AsChunkedAt(log, e + 1) \o AsChunkedAt(log, e + 2)
         \o AsChunkedAt(log, e + 3) \o AsChunkedAt(log, e + 4) \o AsChunkedAt(log, e + 5)
         \o AsChunkedAt(log, e + 6) \o AsChunkedAt(log, e + 7) \o AsChunked(log, e + 8)

\* the data of a job that generate_instructions returned was split
Chunked == last.op = "generate_instructions" /\ last.raised = "" /\ chunks.raised # "pending"

\* C12 as stated: chunker yields exactly the instructions the encoder appended
C12_ChunksAreTheInstructions ==
    Chunked => chunks.raised = "" /\ chunks.instructions = qlr.log

\* C12: chunker yields the instructions the encoder appended, in their
\* order and with their boundaries, but for the 200 zero bytes of
\* add_invalidate, which it yields as 200 instructions of one byte
C12_ChunksAreTheInstructionsButInvalidate ==
    Chunked => chunks.raised = "" /\ chunks.instructions = AsChunked(qlr.log, 1)

C12_Witness ==
    /\ Chunked
    /\ Len(last.job.images) = 2 /\ last.job.red /\ last.job.compress
    /\ qlr.compression
    /\ \E e \in 1 .. Len(chunks.instructions) : chunks.instructions[e][1] = 119
    /\ Len(chunks.instructions) = Len(qlr.log) + 199

\* the name that OPCODES gives to an instruction of the encoder's log
Kind(instruction) == OPCODES[match_opcode(instruction, 1)][2]

\* the place in the job sequence reached by an instruction of name kind
\* written at the place stage; "bad" when the sequence has no such step
SequenceStep(stage, kind) ==
    CASE stage = "start" /\ kind = "mode setting" -> "first mode setting"
      [] stage \in {"start", "first mode setting"} /\ kind = "preamble" -> "preamble"
      [] stage = "preamble" /\ kind = "init" -> "init"
      [] stage = "init" /\ kind = "mode setting" -> "mode setting"
      [] stage \in {"init", "mode setting", "print"} /\ kind = "status request"
            -> "status request"
      [] stage = "status request" /\ kind = "media/quality" -> "media/quality"
      [] stage = "media/quality" /\ kind = "various" -> "various"
      [] stage = "various" /\ kind = "cut-every" -> "cut-every"
      [] stage \in {"media/quality", "cut-every"} /\ kind = "expanded" -> "expanded"
      [] stage \in {"media/quality", "cut-every", "expanded"} /\ kind = "margins"
            -> "margins"
      [] stage = "margins" /\ kind = "compression" -> "compression"
      [] stage \in {"margins", "compression", "raster"}
         /\ kind \in {"raster QL", "2-color raster QL", "raster P-touch"} -> "raster"
      [] stage = "raster" /\ kind = "print" -> "print"
      [] OTHER -> "bad"

\* the place in the job sequence at the end of log, read from entry e on
SequenceAt(log, e, stage) ==
    IF e > Len(log) THEN stage ELSE SequenceStep(stage, Kind(log[e]))

\* the log is read eight entries at a time, and "bad" stays "bad"
RECURSIVE SequenceEnd(_, _, _)
SequenceEnd(log, e, stage) ==
    IF e > Len(log) \/ stage = "bad" THEN stage
    ELSE SequenceEnd(log, e + 8,
             SequenceAt(log, e + 7, SequenceAt(log, e + 6, SequenceAt(log, e + 5,
             SequenceAt(log, e + 4, SequenceAt(log, e + 3, SequenceAt(log, e + 2,
             SequenceAt(log, e + 1, SequenceAt(log, e, stage)))))))))

IsPrint(instruction) == instruction \in {<<12>>, <<26>>}

IsMediaQuality(instruction) == Kind(instruction) = "media/quality"

\* generate_instructions returned
Returned == last.op = "generate_instructions" /\ last.raised = ""

\* C21: the instructions that generate_instructions appended follow the job
\* sequence (optional mode switch, invalidate, initialize, optional mode
\* switch, then per image status request, media/quality, optional autocut
\* and cut-every, optional expanded mode, margins, optional compression,
\* raster rows, print), one page per image when the call returns
C21_JobSequence ==
    last.op = "generate_instructions" =>
        /\ SequenceEnd(qlr.log, 1, "start") # "bad"
        /\ last.raised = "" =>
               /\ SequenceEnd(qlr.log, 1, "start") = "print"
               /\ Len(SelectSeq(qlr.log, IsPrint)) = Len(last.job.images)
               /\ Len(SelectSeq(qlr.log, IsMediaQuality)) = Len(last.job.images)

C21_Witness ==
    /\ Returned
    /\ Len(last.job.images) = 2 /\ last.job.cut /\ last.job.compress /\ last.job.red
    /\ \E e \in 1 .. Len(qlr.log) : Kind(qlr.log[e]) = "compression"
    /\ \E e \in 1 .. Len(qlr.log) : Kind(qlr.log[e]) = "cut-every"
    /\ Kind(qlr.log[1]) = "mode setting"

\* C22 as stated: in a job of several images every page but the last ends
\* with the opcode 0C and the last page with the opcode 1A
C22_IntermediatePagesEndWithFormFeed ==
    (Returned /\ Len(last.job.images) >= 2) =>
        \A k \in 1 .. Len(SelectSeq(qlr.log, IsPrint)) :
            SelectSeq(qlr.log, IsPrint)[k] =
                IF k = Len(SelectSeq(qlr.log, IsPrint)) THEN <<26>> ELSE <<12>>

\* C23 as stated: the continuation byte of the media/quality instruction is
\* 0 for the first page of a job and 1 for every later page
C23_ContinuationByteMarksLaterPages ==
    (Returned /\ Len(last.job.images) >= 2) =>
        \A k \in 1 .. Len(SelectSeq(qlr.log, IsMediaQuality)) :
            SelectSeq(qlr.log, IsMediaQuality)[k][12] = IF k = 1 THEN 0 ELSE 1

IsPrefix(a, b) == Len(a) <= Len(b) /\ SubSeq(b, 1, Len(a)) = a

\* C24: the buffer before a call on an encoder object is a prefix of the
\* buffer after it, whether the call returned, failed or was skipped
C24_BufferIsAppendOnly ==
    IsPrefix(last.before.data, qlr.data)

C24_Witness ==
    /\ last.calls = 2
    /\ last.op = "generate_instructions" /\ last.raised = ""
    /\ \E e \in 1 .. Len(last.before.log) : Kind(last.before.log[e]) = "print"
    /\ Len(qlr.data) > Len(last.before.data)
    /\ IsPrefix(last.before.data, qlr.data)

\* add_raster_data was handed an image of another width than the device's,
\* or two images of different sizes
RasterMismatch ==
    /\ last.op = "add_raster_data"
    /\ \/ last.arg # get_pixel_width(last.before)
       \/ last.job.images \notin {<< >>, <<1>>}

\* C25: add_raster_data with a first image of another width than the
\* device's, or with two images of different sizes, raises
\* BrotherQLRasterError and leaves the buffer as it was
C25_MismatchRaisesBeforeWriting ==
    RasterMismatch =>
        /\ last.raised = "BrotherQLRasterError"
        /\ qlr.data = last.before.data

C25_Witness ==
    /\ RasterMismatch
    /\ last.arg = get_pixel_width(last.before) /\ last.job.images = <<2>>
    /\ last.raised = "BrotherQLRasterError"
    /\ Len(last.before.data) > 0 /\ qlr.data = last.before.data

RECURSIVE Flat(_)
Flat(instructions) ==
    IF instructions = << >> THEN << >>
    ELSE Head(instructions) \o Flat(Tail(instructions))

\* chunker has run on stream.data
Split == chunks.raised # "pending" /\ last.op = "__init__"

\* no signature matches at the position pos of d
Unmatched(d, pos) == pos <= Len(d) /\ match_opcode(d, pos) = 0

\* C26: when no signature matches at the current position, chunker with
\* raise_exception raises and has yielded only what lies before that
\* position; without raise_exception it yields what it yields for the
\* stream without that one byte
C26_NoMatchRaisesOrSkipsOneByte ==
    Split =>
        /\ stream.raise_exception =>
              /\ Flat(chunks.instructions)
                    = SubSeq(stream.data, 1, Len(Flat(chunks.instructions)))
              /\ chunks.raised = "ValueError"
                    <=> Unmatched(stream.data, Len(Flat(chunks.instructions)) + 1)
        /\ ~stream.raise_exception /\ Unmatched(stream.data, 1) =>
              chunks = chunker(Tail(stream.data), FALSE)

C26_Witness ==
    /\ Split /\ ~stream.raise_exception
    /\ Unmatched(stream.data, 1) /\ Unmatched(stream.data, 2)
    /\ chunks.raised = "" /\ Len(chunks.instructions) = 2
    /\ chunks = chunker(Tail(stream.data), FALSE)

\* the length of the instruction at the start of d as C27 states it: the
\* following-byte count of the table for every opcode that is no raster row
StatedLength(d) ==
    LET opcode_def == OPCODES[match_opcode(d, 1)]
    IN  IF opcode_def[2] \in {"raster QL", "2-color raster QL"} THEN 3 + d[3]
        ELSE IF opcode_def[2] = "raster P-touch" THEN 3 + d[2] + 256 * d[3]
        ELSE Len(opcode_def[1]) + opcode_def[3]

\* the same, a count of -1 (the preamble byte) adding nothing
InstructionLength(d) ==
    LET opcode_def == OPCODES[match_opcode(d, 1)]
    IN  IF opcode_def[2] \in {"raster QL", "2-color raster QL"} THEN 3 + d[3]
        ELSE IF opcode_def[2] = "raster P-touch" THEN 3 + d[2] + 256 * d[3]
        ELSE Len(opcode_def[1]) + Max(opcode_def[3], 0)

\* d starts with an instruction that lies completely inside d
StartsComplete(d) ==
    /\ d # << >> /\ match_opcode(d, 1) # 0
    /\ OPCODES[match_opcode(d, 1)][2] \in {"raster QL", "2-color raster QL",
                                           "raster P-touch"} => Len(d) >= 3
    /\ InstructionLength(d) <= Len(d)

\* C27 as stated: the preamble byte too has the length that the table's
\* following-byte count gives
C27_LengthFromTableOrLengthField ==
    Split /\ StartsComplete(stream.data) =>
        /\ chunks.instructions # << >>
        /\ chunks.instructions[1] = SubSeq(stream.data, 1, StatedLength(stream.data))

\* C27: the first instruction chunker yields from a stream that starts with
\* a complete instruction has the signature's length plus the following-byte
\* count when that is positive, 3 plus the byte at offset 2 for a QL or
\* two-colour row, 3 plus the 16-bit value at offsets 1..2 for a P-touch row,
\* one byte for the preamble; what follows is what chunker yields for the
\* rest of the stream
C27_LengthFromTableOrLengthFieldPreambleOne ==
    Split /\ StartsComplete(stream.data) =>
        /\ chunks.instructions # << >>
        /\ chunks.instructions[1]
              = SubSeq(stream.data, 1, InstructionLength(stream.data))
        /\ \E rest \in {chunker(SubSeq(stream.data,
                                       InstructionLength(stream.data) + 1,
                                       Len(stream.data)),
                                stream.raise_exception)} :
              /\ chunks.raised = rest.raised
              /\ Tail(chunks.instructions) = rest.instructions

C27_Witness ==
    /\ Split /\ StartsComplete(stream.data)
    /\ stream.data[1] = 119
    /\ Len(chunks.instructions) >= 3
    /\ chunks.instructions[1] = <<119, 1, 1, 9>>
    /\ chunks.instructions[2] = <<119, 2, 2, 0, 8>>

\* C28 as stated: in lenient mode chunker raises nothing and every
\* instruction it yields has the length computed for it
C28_LenientNeverRaisesNorTruncates ==
    Split /\ ~stream.raise_exception =>
        /\ chunks.raised = ""
        /\ \A e \in 1 .. Len(chunks.instructions) :
              StartsComplete(chunks.instructions[e])

\* the table entries whose signature d holds at the position pos
Matching(signatures, d, pos) ==
    {i \in 1 .. Len(signatures) :
        IsPrefix(signatures[i], SubSeq(d, pos, Len(d)))}

PrefixFree(signatures) ==
    \A i, j \in 1 .. Len(signatures) :
        i # j => ~IsPrefix(signatures[i], signatures[j])

\* the signatures of constants.py OPCODES and of control/op_codes.py OPCODES
Signatures ==
    <<[i \in 1 .. Len(OPCODES) |-> OPCODES[i][1]],
      [i \in 1 .. Len(op_codes_OPCODES) |-> op_codes_OPCODES[i].signature]>>

TablesPrefixFree == PrefixFree(Signatures[1]) /\ PrefixFree(Signatures[2])

\* C29: in both opcode tables no signature is a prefix of another, at most
\* one signature matches at any position of a stream, and match_opcode's
\* assertion fails only where none matches
C29_SignaturesPrefixFree ==
    /\ TablesPrefixFree
    /\ \A pos \in 1 .. Len(stream.data) :
          /\ Cardinality(Matching(Signatures[1], stream.data, pos)) <= 1
          /\ Cardinality(Matching(Signatures[2], stream.data, pos)) <= 1
          /\ match_opcode(stream.data, pos) = 0 =>
                Matching(Signatures[1], stream.data, pos) = {}

C29_Witness ==
    /\ Split
    /\ Len(stream.data) >= 5
    /\ SubSeq(stream.data, 1, 3) = <<27, 105, 100>>
    /\ match_opcode(stream.data, 1) # 0
    /\ match_opcode(stream.data, 2) = 0
    /\ chunks.instructions # << >> /\ Len(chunks.instructions[1]) = 5

\* the units C30 describes: runs of preamble instructions joined when
\* join_preamble, runs of raster-family instructions joined when join_raster
RECURSIVE Units(_, _, _, _, _)
Units(instructions, i, unit, join_preamble, join_raster) ==
    IF i > Len(instructions)
    THEN IF unit = << >> THEN << >> ELSE <<unit>>
    ELSE IF /\ i > 1
            /\ \/ /\ join_preamble
                  /\ Kind(instructions[i]) = "preamble"
                  /\ Kind(instructions[i - 1]) = "preamble"
               \/ /\ join_raster
                  /\ {Kind(instructions[i]), Kind(instructions[i - 1])}
                        \subseteq {"raster QL", "raster P-touch",
                                   "2-color raster QL", "zero raster"}
    THEN Units(instructions, i + 1, unit \o instructions[i], join_preamble, join_raster)
    ELSE (IF unit = << >> THEN << >> ELSE <<unit>>)
         \o Units(instructions, i + 1, instructions[i], join_preamble, join_raster)

\* C30 as stated: merge_specific_instructions returns, and returns the runs
C30_MergeReturnsRuns ==
    stream.merged.raised # "pending" =>
        /\ stream.merged.raised = ""
        /\ stream.merged.value = Units(chunks.instructions, 1, << >>,
                                       stream.join_preamble, stream.join_raster)

Prints(log) == {e \in 1 .. Len(log) : Kind(log[e]) = "print"}

\* the entries of the page that the print opcode at p ends: those behind the
\* print opcode before it
Page(log, prints, p) ==
    {e \in 1 .. p - 1 : \A k \in prints : k < p => k < e}

\* the rows of a page on a lane: lane 0 one-colour or P-touch rows, lanes 1
\* and 2 the rows of a two-colour page
RowsOn(log, entries, lane) ==
    {e \in entries :
        \/ lane = 0 /\ Kind(log[e]) \in {"raster QL", "raster P-touch"}
        \/ lane > 0 /\ Kind(log[e]) = "2-color raster QL" /\ log[e][2] = lane}

\* at each print opcode of log the rows written since the print opcode before
\* are on every lane as many as the media/quality instruction of the page
\* declared
PagesDeclareRows(log, prints, red) ==
    \A p \in prints :
        /\ \E e \in Page(log, prints, p) : Kind(log[e]) = "media/quality"
        /\ \A e \in Page(log, prints, p) :
              Kind(log[e]) = "media/quality" =>
                  \A lane \in 0 .. 2 :
                      Cardinality(RowsOn(log, Page(log, prints, p), lane)) =
                          IF red = (lane > 0)
                          THEN log[e][8] + 256 * log[e][9] + 65536 * log[e][10]
                                  + 16777216 * log[e][11]
                          ELSE 0

\* C35: in the job that generate_instructions wrote, every page has for each
\* colour plane as many raster rows as its media/quality instruction
\* declares, and the length written in front of a row is the number of bytes
\* of the row that follow
C35_RowsAsDeclared ==
    Returned =>
        /\ PagesDeclareRows(qlr.log, Prints(qlr.log), last.job.red)
        /\ \A e \in 1 .. Len(qlr.log) :
              /\ Kind(qlr.log[e]) \in {"raster QL", "2-color raster QL"} =>
                    qlr.log[e][3] = Len(qlr.log[e]) - 3
              /\ Kind(qlr.log[e]) = "raster P-touch" =>
                    qlr.log[e][2] + 256 * qlr.log[e][3] = Len(qlr.log[e]) - 3

C35_Witness ==
    /\ Returned /\ last.job.red /\ last.job.compress
    /\ last.job.images = <<2, 2>>
    /\ Len(SelectSeq(qlr.log, IsPrint)) = 2
    /\ \E e \in 1 .. Len(qlr.log) :
          /\ Kind(qlr.log[e]) = "2-color raster QL"
          /\ Len(qlr.log[e]) < 20
    /\ \E e \in 1 .. Len(qlr.log) :
          /\ Kind(qlr.log[e]) = "media/quality"
          /\ qlr.log[e][8] = 2

\* the rows of log from entry e on go lane 1, lane 2, lane 1, ..., and a page
\* ends behind a row of lane 2; lane is the lane the next row has to be on
RECURSIVE LanesAlternate(_, _, _)
LanesAlternate(log, e, lane) ==
    IF e > Len(log) THEN lane = 1
    ELSE IF Kind(log[e]) = "2-color raster QL"
    THEN log[e][2] = lane /\ LanesAlternate(log, e + 1, 3 - lane)
    ELSE IF Kind(log[e]) \in {"raster QL", "raster P-touch", "zero raster"}
    THEN FALSE
    ELSE IF Kind(log[e]) = "print"
    THEN lane = 1 /\ LanesAlternate(log, e + 1, 1)
    ELSE LanesAlternate(log, e + 1, lane)

\* C36: on a QL model the rows of a page of a two-colour job are written
\* 77 01, 77 02, 77 01, ... with a 77 02 row behind every 77 01 row, and the
\* rows of a one-colour job all begin with 67 00
C36_LanesAlternate ==
    Returned /\ qlr.model \notin {"PT-P750W", "PT-P900W"} =>
        IF last.job.red
        THEN LanesAlternate(qlr.log, 1, 1)
        ELSE \A e \in 1 .. Len(qlr.log) :
                /\ Kind(qlr.log[e]) # "2-color raster QL"
                /\ Kind(qlr.log[e]) = "raster QL" => SubSeq(qlr.log[e], 1, 2) = <<103, 0>>

C36_Witness ==
    /\ Returned /\ last.job.red /\ qlr.model = "QL-800"
    /\ last.job.images = <<2, 2>>
    /\ \E e \in 1 .. Len(qlr.log) - 3 :
          /\ SubSeq(qlr.log[e], 1, 2) = <<119, 1>>
          /\ SubSeq(qlr.log[e + 1], 1, 2) = <<119, 2>>
          /\ SubSeq(qlr.log[e + 2], 1, 2) = <<119, 1>>
          /\ SubSeq(qlr.log[e + 3], 1, 2) = <<119, 2>>
          /\ qlr.log[e] # qlr.log[e + 2]

C32_DeadlineAndReturn ==
    /\ [][trace' # trace => elapsed < Deadline]_vars
    /\ [](pc = "raised" => exc = "TransportError")

\* analyse has read the job that generate_instructions wrote
Analysed == Returned /\ br.raised = ""

\* C31 as stated: what analyse holds at each print opcode are the raster-row
\* count, the media width and the media length that the encoder wrote into
\* the media/quality instruction of the page
C31_ReaderRecoversMediaAndRows ==
    Analysed =>
        \A k \in 1 .. Len(br.pages) :
            /\ br.pages[k].raster_no = image_size(qlr, last.job, k)[2]
            /\ br.pages[k].mwidth = qlr.mwidth[1]
            /\ br.pages[k].mlength = qlr.mlength[1]

\* C37 as stated: at each print opcode analyse holds as many black rows as
\* the media/quality instruction of the page declares
C37_RowsOfOnePageOnly ==
    Analysed =>
        \A k \in 1 .. Len(br.pages) : br.pages[k].size[2] = br.pages[k].raster_no

\* a raw read made behind the polling loop
IsLast(r) == r.at = "last"

\* a raw read made in the polling loop that answered bytes
GotInLoop(r) == r.at = "loop" /\ r.got # << >>

\* C33 as stated: under SELECT, in every backend, a call that got no data
\* in the polling loop makes exactly one raw read behind the loop and
\* returns what that read answered, and a call that got data in the loop
\* returns that data and makes no read behind the loop
C33_SelectEndsWithOneLastRead ==
    rd.pc = "returned" /\ rd.strategy = "SELECT" =>
        IF Len(SelectSeq(rd.reads, GotInLoop)) = 0
        THEN /\ Len(SelectSeq(rd.reads, IsLast)) = 1
             /\ rd.ret = rd.reads[Len(rd.reads)].got
             /\ rd.reads[Len(rd.reads)].at = "last"
        ELSE /\ Len(SelectSeq(rd.reads, IsLast)) = 0
             /\ rd.ret = SelectSeq(rd.reads, GotInLoop)[1].got

====
